---------------------------- MODULE Spec2Model ----------------------------
(***************************************************************************)
(* A model of sortmedia.py (and of the legacy sortphotos.py it was         *)
(* rewritten from): the timestamp parser parse_date, the date resolver     *)
(* get_date and the batch loop of sort() with its collision handling.      *)
(*                                                                         *)
(* Text is modelled as a sequence of one-character strings, so that the    *)
(* splitting, comparing and converting the code does on strings is done    *)
(* here on the characters as well.                                         *)
(***************************************************************************)
EXTENDS Integers, Sequences, FiniteSets, TLC

VARIABLES
    \* ---- parser harness: one text handed to parse_date, call after call
    text,            \* the raw timestamp text
    results,         \* the outcomes of the calls made so far, in order
    use_local_time,  \* --use-local-time of the older sortphotos.py
    \* ---- batch run of sort()
    media_type,      \* "photo" | "video"
    copy,            \* -c
    keep,            \* -k
    test,            \* -t (dry run)
    filename_format, \* -f: None or a strftime pattern
    metadata,        \* the records ExifTool returned, in order
    idx,             \* number of records the loop has consumed
    fs,              \* the files on disk: path -> content
    dirs,            \* the directories on disk
    test_file_dict,  \* the dry run's ledger: destination -> source
    num_ignored,
    num_duplicates,
    num_processed,
    processed,       \* the (source, destination) pairs, in order
    pc,              \* "loop" | "done" | "raised"
    src_dir,         \* the source directory of the run
    fs0,             \* the files on disk when the run began (history)
    trace            \* per consumed record: what the iteration did (history)

parseVars == <<text, results, use_local_time>>
batchVars == <<media_type, copy, keep, test, filename_format, metadata, idx, fs,
               dirs, test_file_dict, num_ignored, num_duplicates, num_processed,
               processed, pc, src_dir, fs0, trace>>
vars == <<text, results, use_local_time, media_type, copy, keep, test, filename_format, metadata,
          idx, fs, dirs, test_file_dict, num_ignored, num_duplicates,
          num_processed, processed, pc, src_dir, fs0, trace>>

\* Python's None and a value that is not None, as a sequence of no or one element.
None == <<>>

Some(x) == <<x>>

\* No exception left the call.
NoExc == "NoException"

(***************************************************************************)
(* Characters and strings                                                  *)
(***************************************************************************)

DigitChars == <<"0", "1", "2", "3", "4", "5", "6", "7", "8", "9">>

IsDigit(c) == \E i \in 1..10 : DigitChars[i] = c

DigitVal(c) == (CHOOSE i \in 1..10 : DigitChars[i] = c) - 1

\* The code point of a character, for Python's ordering of strings.
Ord(c) ==
    CASE c = " " -> 32
      [] c = "#" -> 35
      [] c = "+" -> 43
      [] c = "-" -> 45
      [] c = "." -> 46
      [] c = "/" -> 47
      [] IsDigit(c) -> 48 + DigitVal(c)
      [] c = ":" -> 58
      [] c = "@" -> 64
      [] c = "E" -> 69
      [] c = "G" -> 71
      [] c = "J" -> 74
      [] c = "P" -> 80
      [] c = "Z" -> 90
      [] c = "_" -> 95
      [] c = "a" -> 97
      [] c = "b" -> 98
      [] c = "c" -> 99
      [] c = "d" -> 100
      [] c = "e" -> 101
      [] c = "g" -> 103
      [] c = "j" -> 106
      [] c = "p" -> 112
      [] c = "s" -> 115
      [] c = "t" -> 116
      [] c = "u" -> 117
      [] c = "x" -> 120

\* Python's a > b on str: lexicographic by code point, a proper prefix is smaller.
RECURSIVE StrGT(_, _)
StrGT(a, b) ==
    IF a = <<>> THEN FALSE
    ELSE IF b = <<>> THEN TRUE
    ELSE IF Ord(a[1]) # Ord(b[1]) THEN Ord(a[1]) > Ord(b[1])
    ELSE StrGT(Tail(a), Tail(b))

\* c in s
Contains(s, c) == \E i \in 1..Len(s) : s[i] = c

\* The index of the first character of s that is in the set cs, 0 if none.
FirstIn(s, cs) ==
    IF \E i \in 1..Len(s) : s[i] \in cs
    THEN CHOOSE i \in 1..Len(s) : s[i] \in cs /\ \A j \in 1..(i - 1) : s[j] \notin cs
    ELSE 0

\* The index of the last character of s that is in the set cs, 0 if none.
LastIn(s, cs) ==
    IF \E i \in 1..Len(s) : s[i] \in cs
    THEN CHOOSE i \in 1..Len(s) : s[i] \in cs /\ \A j \in (i + 1)..Len(s) : s[j] \notin cs
    ELSE 0

\* str.split(sep): every occurrence of the separator cuts, empty pieces are kept.
RECURSIVE SplitOn(_, _)
SplitOn(s, sep) ==
    LET i == FirstIn(s, {sep})
    IN  IF i = 0 THEN <<s>>
        ELSE <<SubSeq(s, 1, i - 1)>> \o SplitOn(SubSeq(s, i + 1, Len(s)), sep)

\* str.strip().split(): cut at runs of blanks, no empty pieces.
RECURSIVE SplitWs(_)
SplitWs(s) ==
    IF s = <<>> THEN <<>>
    ELSE IF s[1] = " " THEN SplitWs(Tail(s))
    ELSE LET i == FirstIn(s, {" "})
         IN  IF i = 0 THEN <<s>>
             ELSE <<SubSeq(s, 1, i - 1)>> \o SplitWs(SubSeq(s, i, Len(s)))

\* re.split('(\+|-|Z)', s): the pieces between the markers and, the group being
\* captured, the markers themselves: [piece, marker, piece, marker, piece, ...].
RECURSIVE ReSplitMarker(_)
ReSplitMarker(s) ==
    LET i == FirstIn(s, {"+", "-", "Z"})
    IN  IF i = 0 THEN <<s>>
        ELSE <<SubSeq(s, 1, i - 1), <<s[i]>>>> \o ReSplitMarker(SubSeq(s, i + 1, Len(s)))

\* ''.join(parts)
RECURSIVE Join(_)
Join(parts) == IF parts = <<>> THEN <<>> ELSE parts[1] \o Join(Tail(parts))

\* Whether int(s) returns: an optional sign and then digits only. Anything else
\* raises ValueError.
IntValid(s) ==
    LET body == IF s # <<>> /\ s[1] \in {"+", "-"} THEN Tail(s) ELSE s
    IN  body # <<>> /\ \A i \in 1..Len(body) : IsDigit(body[i])

RECURSIVE DigitsVal(_)
DigitsVal(s) ==
    IF s = <<>> THEN 0
    ELSE 10 * DigitsVal(SubSeq(s, 1, Len(s) - 1)) + DigitVal(s[Len(s)])

\* int(s), where IntValid(s)
IntOf(s) ==
    IF s[1] = "-" THEN 0 - DigitsVal(Tail(s))
    ELSE IF s[1] = "+" THEN DigitsVal(Tail(s))
    ELSE DigitsVal(s)

Colon == <<":">>

Blank == <<" ">>

\* '%02d' % n and '%04d' % n
Fmt2(n) == <<DigitChars[((n \div 10) % 10) + 1], DigitChars[(n % 10) + 1]>>

Fmt4(n) == Fmt2(n \div 100) \o Fmt2(n % 100)

(***************************************************************************)
(* datetime                                                                *)
(***************************************************************************)

DaysInMonth(y, m) ==
    IF m = 2 THEN (IF (y % 4 = 0 /\ y % 100 # 0) \/ y % 400 = 0 THEN 29 ELSE 28)
    ELSE IF m \in {4, 6, 9, 11} THEN 30 ELSE 31

\* Whether datetime(y, mo, d, h, mi, s) returns; it raises ValueError otherwise.
DatetimeValid(y, mo, d, h, mi, s) ==
    /\ y \in 1..9999
    /\ mo \in 1..12
    /\ d >= 1 /\ d <= DaysInMonth(y, mo)
    /\ h \in 0..23
    /\ mi \in 0..59
    /\ s \in 0..59

Datetime(y, mo, d, h, mi, s) ==
    [year |-> y, month |-> mo, day |-> d, hour |-> h, minute |-> mi, second |-> s]

\* Whether date.strftime(...) raises ValueError. datetime.strftime refuses years
\* before 1900 in Python 2 only; in Python 3 (3.3 on) it formats every year.
StrftimeRaises(python, date) == python = "py2" /\ date.year < 1900

(***************************************************************************)
(* parse_date                                                              *)
(***************************************************************************)

\* What a call can come to: a pair (date, offset), the pair (None, None), or an
\* exception leaving the function.
Returned(date, offset) == [exc |-> NoExc, date |-> Some(date), offset |-> Some(offset)]

NoneNone == [exc |-> NoExc, date |-> None, offset |-> None]

Raised(e) == [exc |-> e, date |-> None, offset |-> None]

\* timedelta(hours=h, minutes=m), in seconds
Timedelta(h, m) == h * 3600 + m * 60

\* A bug the legacy parser has: the sign is applied to the hours alone.
SignedOffset_HoursOnly(sign, offset_hours, offset_minutes) ==
    IF sign = <<"-">> THEN Timedelta(0 - offset_hours, offset_minutes)
    ELSE Timedelta(offset_hours, offset_minutes)

\* Lines 119-121: the offset of the given hours and minutes, times -1 under "-".
SignedOffset(sign, offset_hours, offset_minutes) ==
    LET offset == Timedelta(offset_hours, offset_minutes)
    IN  IF sign = <<"-">> THEN 0 - offset ELSE offset

\* Lines 103-121: the hour, minute, second and offset of the time token's pieces;
\* "exc" tells that an int() on the way raised.
ParseTimeFields(time_entries, time, secs, offset_entries) ==
    IF \/ Len(time) \in {2, 3} /\ (~IntValid(time[1]) \/ ~IntValid(time[2]))
       \/ Len(time) = 3 /\ ~IntValid(secs)
       \/ Len(offset_entries) = 2
          /\ (~IntValid(offset_entries[1]) \/ ~IntValid(offset_entries[2]))
    THEN [exc |-> "ValueError", hour |-> 0, minute |-> 0, second |-> 0, offset |-> 0]
    ELSE [exc |-> NoExc,
          hour |-> IF Len(time) \in {2, 3} THEN IntOf(time[1]) ELSE 12,
          minute |-> IF Len(time) \in {2, 3} THEN IntOf(time[2]) ELSE 0,
          second |-> IF Len(time) = 3 THEN IntOf(secs) ELSE 0,
          offset |-> IF Len(offset_entries) = 2
                     THEN SignedOffset(time_entries[2], IntOf(offset_entries[1]),
                                       IntOf(offset_entries[2]))
                     ELSE Timedelta(0, 0)]

\* Lines 104 and 108: time = time_entries[0].split(':'), time[2].split('.')[0]
ParseTimeSplit(time_entries, time) ==
    ParseTimeFields(time_entries, time,
                    IF Len(time) = 3 THEN SplitOn(time[3], ".")[1] ELSE <<>>,
                    IF Len(time_entries) > 2 THEN SplitOn(time_entries[3], ":") ELSE <<>>)

\* Line 101 and 104
ParseTimeEntries(time_entries) ==
    ParseTimeSplit(time_entries, SplitOn(time_entries[1], ":"))

\* Lines 99-121: the time token.
ParseTimeToken(token) == ParseTimeEntries(ReSplitMarker(token))

\* A default of midnight instead of noon.
DefaultTime_Midnight == [exc |-> NoExc, hour |-> 0, minute |-> 0, second |-> 0,
                         offset |-> Timedelta(0, 0)]

\* Lines 91-97: the time and offset of a text without a time token.
DefaultTime == [exc |-> NoExc, hour |-> 12, minute |-> 0, second |-> 0,
                offset |-> Timedelta(0, 0)]

\* Lines 129-135: the final sanity check and the result.
ParseChecked(date, offset) ==
    IF StrftimeRaises("py3", date) THEN NoneNone
    ELSE Returned(date, offset)

\* Lines 123-127: the date object, or (None, None) when datetime() refuses the values.
ParseBuild(year, month, day, tm) ==
    IF tm.exc # NoExc THEN Raised(tm.exc)
    ELSE IF ~DatetimeValid(year, month, day, tm.hour, tm.minute, tm.second)
    THEN NoneNone
    ELSE ParseChecked(Datetime(year, month, day, tm.hour, tm.minute, tm.second), tm.offset)

\* Lines 82-121: the date token's three fields, then the time token.
ParseFields(elements, date_entries) ==
    IF ~(/\ Len(date_entries) = 3
         /\ StrGT(date_entries[1], <<"0", "0", "0", "0">>)
         /\ ~Contains(Join(date_entries), "."))
    THEN NoneNone
    ELSE IF \E i \in 1..3 : ~IntValid(date_entries[i])
    THEN Raised("ValueError")
    ELSE ParseBuild(IntOf(date_entries[1]), IntOf(date_entries[2]), IntOf(date_entries[3]),
                    IF Len(elements) > 1 THEN ParseTimeToken(elements[2]) ELSE DefaultTime)

\* Lines 77-82
ParseElements(elements) ==
    IF Len(elements) < 1 THEN NoneNone
    ELSE ParseFields(elements, SplitOn(elements[1], ":"))

parse_date(txt) == ParseElements(SplitWs(txt))

(***************************************************************************)
(* datetime arithmetic, format_offset, get_offset, get_date                *)
(***************************************************************************)

\* Days from 0001-01-01 to the first day of year y (date.toordinal's count).
DaysBeforeYear(y) ==
    (y - 1) * 365 + ((y - 1) \div 4) - ((y - 1) \div 100) + ((y - 1) \div 400)

RECURSIVE DaysBeforeMonth(_, _)
DaysBeforeMonth(y, m) ==
    IF m = 1 THEN 0 ELSE DaysBeforeMonth(y, m - 1) + DaysInMonth(y, m - 1)

ToOrdinal(date) == DaysBeforeYear(date.year) + DaysBeforeMonth(date.year, date.month) + date.day

SecondOfDay(date) == date.hour * 3600 + date.minute * 60 + date.second

\* The year and the month day number n falls in, n counted from 0001-01-01 = 1 and
\* rest from the year's first day = 1.
YearOfOrdinal(n) ==
    CHOOSE y \in ((n \div 366) + 1)..((n \div 365) + 1) :
        DaysBeforeYear(y) < n /\ n <= DaysBeforeYear(y + 1)

MonthOfRest(y, rest) ==
    CHOOSE m \in 1..12 :
        DaysBeforeMonth(y, m) < rest /\ rest <= DaysBeforeMonth(y, m) + DaysInMonth(y, m)

DateInMonth(y, m, rest, sec) ==
    Datetime(y, m, rest - DaysBeforeMonth(y, m), sec \div 3600, (sec % 3600) \div 60, sec % 60)

DateInYear(y, rest, sec) == DateInMonth(y, MonthOfRest(y, rest), rest, sec)

DateOfYear(y, n, sec) == DateInYear(y, n - DaysBeforeYear(y), sec)

\* The date/time of day number n and second-of-day sec.
FromOrdinal(n, sec) == DateOfYear(YearOfOrdinal(n), n, sec)

\* date + timedelta(seconds=delta)
DatePlus(date, delta) ==
    FromOrdinal(ToOrdinal(date) + ((SecondOfDay(date) + delta) \div 86400),
                (SecondOfDay(date) + delta) % 86400)

\* abs((a - b).total_seconds()) <= bound, for a bound below a day
SecondsApart(days, secs, bound) ==
    /\ days \in {-1, 0, 1}
    /\ days * 86400 + secs <= bound
    /\ 0 - (days * 86400 + secs) <= bound

\* The comparison with < in place of <=.
WithinSeconds_Strict(a, b, bound) ==
    SecondsApart(ToOrdinal(a) - ToOrdinal(b), SecondOfDay(a) - SecondOfDay(b), bound - 1)

WithinSeconds(a, b, bound) ==
    SecondsApart(ToOrdinal(a) - ToOrdinal(b), SecondOfDay(a) - SecondOfDay(b), bound)

Abs(n) == IF n < 0 THEN 0 - n ELSE n

\* format_offset: '{sign} {hours:02d}:{minutes:02d}'; int() truncates toward zero.
FormatMinutes(diff_min) ==
    <<(IF diff_min < 0 THEN "-" ELSE "+"), " ">>
    \o Fmt2(Abs(diff_min) \div 60) \o <<":">> \o Fmt2(Abs(diff_min) % 60)

format_offset(offset) ==
    FormatMinutes(IF offset < 0 THEN 0 - ((0 - offset) \div 60) ELSE offset \div 60)

\* TimezoneFinder().certain_timezone_at and pytz: the zone of a position and its
\* offset from UTC. A position is a pair <<lat, lng>> in whole degrees. The library
\* answers None where no zone is certain and raises on a coordinate out of range;
\* the zones below keep one offset all year.
TimezoneAt(lat, lng) ==
    IF lat < -90 \/ lat > 90 \/ lng < -180 \/ lng > 180 THEN "raise"
    ELSE IF lat = 35 /\ lng = 139 THEN "Asia/Tokyo"
    ELSE IF lat = 28 /\ lng = 77 THEN "Asia/Kolkata"
    ELSE IF lat = 33 /\ lng = -112 THEN "America/Phoenix"
    ELSE IF lat = -14 /\ lng = -171 THEN "Pacific/Pago_Pago"
    ELSE "None"

\* get_offset: the offset of the position's zone, None when the zone is unknown or
\* anything raised.
OffsetOfZone(tz_name) ==
    IF tz_name = "raise" THEN None
    ELSE IF tz_name = "None" THEN None
    ELSE Some(CASE tz_name = "Asia/Tokyo" -> Timedelta(9, 0)
              [] tz_name = "Asia/Kolkata" -> Timedelta(5, 30)
              [] tz_name = "America/Phoenix" -> Timedelta(-7, 0)
              [] tz_name = "Pacific/Pago_Pago" -> Timedelta(-11, 0))

get_offset(lat, lng, date) == OffsetOfZone(TimezoneAt(lat, lng))

TAG_DATE_PHOTO == "EXIF:DateTimeOriginal"
TAG_DATE_VIDEO == "QuickTime:CreateDate"
TAG_DATE_FILE == "File:FileModifyDate"
TAG_GPS_LATITUDE == "Composite:GPSLatitude"
TAG_GPS_LONGITUDE == "Composite:GPSLongitude"

\* The provenance texts are kept as tuples <<tag, how, offset text>>.
Resolved(date, info) == [exc |-> NoExc, date |-> Some(date), info |-> info]

Unresolved == [exc |-> NoExc, date |-> None, info |-> <<>>]

ResolveRaised(e) == [exc |-> e, date |-> None, info |-> <<>>]

\* Lines 174-180: no offset from GPS; the file's date, if the record has one, parsed
\* to file.
VideoViaFile(date_video, file) ==
    IF file.exc # NoExc THEN ResolveRaised(file.exc)
    ELSE IF /\ file.date # None
            /\ file.offset # None
            /\ WithinSeconds(DatePlus(file.date[1], 0 - file.offset[1]), date_video, 3)
    THEN Resolved(DatePlus(date_video, file.offset[1]),
                  <<TAG_DATE_VIDEO, "in UTC", format_offset(file.offset[1]), "via File">>)
    ELSE Resolved(date_video, <<TAG_DATE_VIDEO, "assumed in local time">>)

\* A resolver that asks the file's date before the GPS offset.
VideoViaGps_FileFirst(data, date_video, offset_gps) ==
    IF TAG_DATE_FILE \in DOMAIN data
    THEN VideoViaFile(date_video, parse_date(data[TAG_DATE_FILE]))
    ELSE IF offset_gps # None
    THEN Resolved(DatePlus(date_video, offset_gps[1]),
                  <<TAG_DATE_VIDEO, "in UTC", format_offset(offset_gps[1]), "via GPS">>)
    ELSE Resolved(date_video, <<TAG_DATE_VIDEO, "assumed in local time">>)

\* Lines 171-180: the offset GPS gave, or None.
VideoViaGps(data, date_video, offset_gps) ==
    IF offset_gps # None
    THEN Resolved(DatePlus(date_video, offset_gps[1]),
                  <<TAG_DATE_VIDEO, "in UTC", format_offset(offset_gps[1]), "via GPS">>)
    ELSE IF TAG_DATE_FILE \in DOMAIN data
    THEN VideoViaFile(date_video, parse_date(data[TAG_DATE_FILE]))
    ELSE Resolved(date_video, <<TAG_DATE_VIDEO, "assumed in local time">>)

\* Lines 168-180: the create date parsed to video.
VideoDate(data, video) ==
    IF video.exc # NoExc THEN ResolveRaised(video.exc)
    ELSE IF video.date = None THEN Unresolved
    ELSE VideoViaGps(data, video.date[1],
                     IF TAG_GPS_LATITUDE \in DOMAIN data /\ TAG_GPS_LONGITUDE \in DOMAIN data
                     THEN get_offset(data[TAG_GPS_LATITUDE], data[TAG_GPS_LONGITUDE],
                                     video.date[1])
                     ELSE None)

\* Lines 161-163: the photo's tag parsed to photo.
PhotoDate(photo) ==
    IF photo.exc # NoExc THEN ResolveRaised(photo.exc)
    ELSE IF photo.date # None
    THEN Resolved(photo.date[1], <<TAG_DATE_PHOTO, "defined in local time">>)
    ELSE Unresolved

get_date(data, mtype) ==
    IF mtype = "photo"
    THEN IF TAG_DATE_PHOTO \in DOMAIN data THEN PhotoDate(parse_date(data[TAG_DATE_PHOTO]))
         ELSE Unresolved
    ELSE IF mtype = "video"
    THEN IF TAG_DATE_VIDEO \in DOMAIN data THEN VideoDate(data, parse_date(data[TAG_DATE_VIDEO]))
         ELSE Unresolved
    ELSE Unresolved

(***************************************************************************)
(* Paths and file names (os.path on POSIX), strftime                       *)
(***************************************************************************)

\* s.startswith(prefix)
StartsWith(s, prefix) == Len(s) >= Len(prefix) /\ SubSeq(s, 1, Len(prefix)) = prefix

\* sub in s
ContainsSub(s, sub) ==
    \E i \in 1..(Len(s) - Len(sub) + 1) : SubSeq(s, i, i + Len(sub) - 1) = sub

\* os.path.join(a, b)
PathJoin(a, b) ==
    IF b # <<>> /\ b[1] = "/" THEN b
    ELSE IF a = <<>> \/ a[Len(a)] = "/" THEN a \o b
    ELSE a \o <<"/">> \o b

\* os.path.basename(p)
Basename(p) == SubSeq(p, LastIn(p, {"/"}) + 1, Len(p))

\* os.path.splitext(p): cut before the last dot of the last component, unless that
\* component has nothing but dots before it.
Splitext(p) ==
    LET sepIndex == LastIn(p, {"/"})
        dotIndex == LastIn(p, {"."})
    IN  IF dotIndex > sepIndex /\ \E i \in (sepIndex + 1)..(dotIndex - 1) : p[i] # "."
        THEN <<SubSeq(p, 1, dotIndex - 1), SubSeq(p, dotIndex, Len(p))>>
        ELSE <<p, <<>>>>

\* s.lower()
Lower(s) == [i \in 1..Len(s) |->
    CASE s[i] = "E" -> "e"
      [] s[i] = "G" -> "g"
      [] s[i] = "J" -> "j"
      [] s[i] = "P" -> "p"
      [] s[i] = "Z" -> "z"
      [] OTHER -> s[i]]

\* str(n) for n >= 0
RECURSIVE StrOf(_)
StrOf(n) == IF n < 10 THEN <<DigitChars[n + 1]>> ELSE StrOf(n \div 10) \o <<DigitChars[(n % 10) + 1]>>

\* date.strftime(format) for the directives %Y %m %d %H %M %S (years of four digits).
RECURSIVE Strftime(_, _)
Strftime(date, format) ==
    IF format = <<>> THEN <<>>
    ELSE IF format[1] = "%" /\ Len(format) >= 2
    THEN (CASE format[2] = "Y" -> Fmt4(date.year)
            [] format[2] = "m" -> Fmt2(date.month)
            [] format[2] = "d" -> Fmt2(date.day)
            [] format[2] = "H" -> Fmt2(date.hour)
            [] format[2] = "M" -> Fmt2(date.minute)
            [] format[2] = "S" -> Fmt2(date.second)
            [] OTHER -> <<format[2]>>)
         \o Strftime(date, SubSeq(format, 3, Len(format)))
    ELSE <<format[1]>> \o Strftime(date, Tail(format))

\* The directories above a path, the nearest last: 'd/2021/06/a.jpg' has d, d/2021
\* and d/2021/06.
Ancestors(p) == {SubSeq(p, 1, i - 1) : i \in {j \in 2..Len(p) : p[j] = "/"}}

(***************************************************************************)
(* The parser on its own: one text, parse_date called on it again and      *)
(* again.                                                                  *)
(***************************************************************************)

MaxCalls == 2

\* Date tokens: years, months and days as metadata carries them, well formed and
\* not, in three fields and in two.
YearTexts == {<<"2", "0", "2", "0">>, <<"1", "8", "5", "0">>, <<"0", "0", "0", "0">>,
              <<"a", "b", "c", "d">>}

MonthTexts == {<<"0", "1">>, <<"0", "2">>, <<"1", "3">>}

DateTokens ==
    {y \o Colon \o m \o Colon \o d : y \in YearTexts, m \in MonthTexts, d \in {<<"1", "5">>, <<"2", "9">>, <<"3", "1">>, <<"4", "0">>, <<"1", ".", "5">>}}
    \cup {y \o Colon \o m : y \in YearTexts, m \in MonthTexts}

\* Time tokens before the marker; <<>> stands for a text with no time token.
TimeTexts == {<<>>,
              <<"1", "0", ":", "3", "0", ":", "4", "5">>,
              <<"1", "0", ":", "3", "0", ":", "4", "5", ".", "6", "7">>,
              <<"1", "0", ":", "3", "0">>,
              <<"2", "3", ":", "5", "9", ":", "5", "9">>,
              <<"2", "4", ":", "0", "0", ":", "0", "0">>,
              <<"1", "x", ":", "0", "0", ":", "0", "0">>}

\* What follows the time: nothing, Z, or a sign and an offset.
OffsetTexts == {<<>>,
                <<"Z">>,
                <<"+", "0", "2", ":", "0", "0">>,
                <<"-", "0", "5", ":", "3", "0">>,
                <<"+", "0", "0", ":", "0", "0">>,
                <<"+", "0", "2", "0", "0">>,
                <<"+", "0", "x", ":", "0", "0">>}

\* Well-formed timestamps, YYYY:MM:DD HH:MM:SS[.fff][+HH:MM|-HH:MM], written out from
\* the numbers they stand for.

ValidCases ==
    {c \in [y : {1850, 2020}, mo : {1, 2, 12}, d : {1, 15, 29},
            h : {0, 10, 23}, mi : {0, 59}, s : {0, 45},
            frac : {<<>>, <<".", "6", "7">>}, off : {[sign |-> "", h |-> 0, m |-> 0],
                   [sign |-> "+", h |-> 2, m |-> 0],
                   [sign |-> "+", h |-> 0, m |-> 0],
                   [sign |-> "+", h |-> 5, m |-> 30],
                   [sign |-> "-", h |-> 5, m |-> 30],
                   [sign |-> "-", h |-> 0, m |-> 30]}] :
        /\ c.d <= DaysInMonth(c.y, c.mo)
        /\ (c.h = 0) = (c.mi = 0) /\ (c.mi = 0) = (c.s = 0)}

FormatCase(c) ==
    Fmt4(c.y) \o Colon \o Fmt2(c.mo) \o Colon \o Fmt2(c.d) \o Blank
    \o Fmt2(c.h) \o Colon \o Fmt2(c.mi) \o Colon \o Fmt2(c.s) \o c.frac
    \o (IF c.off.sign = "" THEN <<>>
        ELSE <<c.off.sign>> \o Fmt2(c.off.h) \o Colon \o Fmt2(c.off.m))

ParseTexts ==
    {<<>>, Blank}
    \cup {d \o (IF t = <<>> THEN <<>> ELSE Blank \o t \o o) :
            d \in DateTokens, t \in TimeTexts, o \in OffsetTexts}
    \cup {FormatCase(c) : c \in ValidCases}

InitParse ==
    /\ text \in ParseTexts
    /\ results = <<>>
    /\ use_local_time = FALSE
    /\ media_type = "photo"
    /\ copy = FALSE
    /\ keep = FALSE
    /\ test = FALSE
    /\ filename_format = None
    /\ metadata = <<>>
    /\ idx = 0
    /\ fs = <<>>
    /\ dirs = {}
    /\ test_file_dict = <<>>
    /\ num_ignored = 0
    /\ num_duplicates = 0
    /\ num_processed = 0
    /\ processed = <<>>
    /\ pc = "done"
    /\ src_dir = <<>>
    /\ fs0 = <<>>
    /\ trace = <<>>

CallParseDate ==
    /\ Len(results) < MaxCalls
    /\ results' = Append(results, parse_date(text))
    /\ UNCHANGED <<text, use_local_time, batchVars>>

NextParse == CallParseDate

SpecParse == InitParse /\ [][NextParse]_vars

(***************************************************************************)
(* Properties of the parser                                                *)
(***************************************************************************)

\* The whitespace-separated tokens of the text under test.
TextElements == SplitWs(text)

\* The time token carries none of the markers +, - and Z, or there is no time token.
NoMarker == Len(TextElements) < 2 \/ FirstIn(TextElements[2], {"+", "-", "Z"}) = 0

\* The date token is one the parser is to refuse: not three fields, year 0000, a
\* decimal point, or numbers that are no calendar day.
BadDateToken ==
    /\ Len(TextElements) >= 1
    /\ LET fields == SplitOn(TextElements[1], ":")
       IN  \/ Len(fields) # 3
           \/ fields[1] = <<"0", "0", "0", "0">>
           \/ Contains(TextElements[1], ".")
           \/ /\ \A i \in 1..3 : IntValid(fields[i])
              /\ ~DatetimeValid(IntOf(fields[1]), IntOf(fields[2]), IntOf(fields[3]), 0, 0, 0)

\* The offset a well-formed text's sign, hours and minutes stand for, in seconds.
WrittenOffset(off) ==
    IF off.sign = "-" THEN 0 - (off.h * 3600 + off.m * 60)
    ELSE off.h * 3600 + off.m * 60

\* C7: when the time token carries no +, - or Z marker (or there is no time token),
\* parse_date reports the offset as absent (None), not as a zero offset.
C7_NoMarkerOffsetAbsent ==
    \A i \in 1..Len(results) :
        (NoMarker /\ results[i].date # None) => results[i].offset = None

C9_BadDateTokenYieldsNone ==
    BadDateToken => \A i \in 1..Len(results) : results[i] = NoneNone

\* C10: a syntactically valid timestamp whose year is before 1900 is rejected by
\* the parser as unparseable: (None, None).
C10_Pre1900Rejected ==
    \A c \in ValidCases :
        (c.y < 1900 /\ text = FormatCase(c)) =>
            \A i \in 1..Len(results) : results[i] = NoneNone

(***************************************************************************)
(* sort(): the batch loop                                                  *)
(***************************************************************************)

MaxRecords == 3

\* The destination directory and the default -s pattern '%Y/%m'.
dst_dir == <<"d">>

subdir_format == <<"%", "Y", "/", "%", "m">>

\* Lines 261-276: the path has a "." (but for a leading "./"), "@" or "#" at the
\* start of the path or of a segment.
IgnoredPath(src_file) ==
    \/ (StartsWith(src_file, <<".">>) /\ ~StartsWith(src_file, <<".", "/">>))
    \/ ContainsSub(src_file, <<"/", ".">>)
    \/ StartsWith(src_file, <<"@">>)
    \/ ContainsSub(src_file, <<"/", "@">>)
    \/ StartsWith(src_file, <<"#">>)
    \/ ContainsSub(src_file, <<"/", "#">>)

\* Lines 290-297: the folders of the date, each joined under the one before.
RECURSIVE JoinAll(_, _)
JoinAll(base, parts) ==
    IF parts = <<>> THEN base ELSE JoinAll(PathJoin(base, parts[1]), Tail(parts))

DstSubdirs(date) == SplitOn(Strftime(date, subdir_format), "/")

DstFolder(date) == JoinAll(dst_dir, DstSubdirs(date))

DstFolders(date) ==
    {JoinAll(dst_dir, SubSeq(DstSubdirs(date), 1, k)) : k \in 1..Len(DstSubdirs(date))}

\* Lines 299-307: the name the file gets.
OutputFilename(src_file, date) ==
    LET filename == Basename(src_file)
    IN  IF filename_format # None
        THEN LET name == Strftime(date, filename_format[1])
                 ext == Lower(Splitext(filename)[2])
             IN  name \o (IF ext = <<".", "j", "p", "e", "g">> THEN <<".", "j", "p", "g">>
                          ELSE ext)
        ELSE filename

\* A comparison that finds no two files alike.
filecmp_cmp_Never(a, b) == FALSE

\* os.stat's signature of a file (type, size, modification time). A file is a
\* number that stands for a content; the contents 1 and 5 differ but have the same
\* size and the same modification time, every other content has its own signature.
StatSignature(file) == IF file = 5 THEN 1 ELSE file

\* filecmp.cmp(a, b), shallow by default: files of one signature are taken to be
\* equal without a look at the content; otherwise the contents decide.
filecmp_cmp(a, b) ==
    \/ StatSignature(fs[a]) = StatSignature(fs[b])
    \/ fs[a] = fs[b]

\* A collision loop that compares the files whatever the duplicate policy.
RECURSIVE CollisionLoop_ComparesAlways(_, _, _, _, _)
CollisionLoop_ComparesAlways(src_file, dst_file, dst_root, dst_ext, same_name_appendix) ==
    IF dst_file \in DOMAIN fs \/ (test /\ dst_file \in DOMAIN test_file_dict)
    THEN IF filecmp_cmp(src_file, IF dst_file \in DOMAIN fs THEN dst_file
                                  ELSE test_file_dict[dst_file])
         THEN [dst_file |-> dst_file, identical_file_exists |-> TRUE,
               checks |-> same_name_appendix]
         ELSE CollisionLoop_ComparesAlways(src_file,
                                           dst_root \o <<"_">> \o StrOf(same_name_appendix) \o dst_ext,
                                           dst_root, dst_ext, same_name_appendix + 1)
    ELSE [dst_file |-> dst_file, identical_file_exists |-> FALSE,
          checks |-> same_name_appendix]

\* A collision loop that renames past every occupant, alike or not.
RECURSIVE CollisionLoop_RenamesDuplicates(_, _, _, _, _)
CollisionLoop_RenamesDuplicates(src_file, dst_file, dst_root, dst_ext, same_name_appendix) ==
    IF dst_file \in DOMAIN fs \/ (test /\ dst_file \in DOMAIN test_file_dict)
    THEN CollisionLoop_RenamesDuplicates(src_file,
             dst_root \o <<"_">> \o StrOf(same_name_appendix) \o dst_ext,
             dst_root, dst_ext, same_name_appendix + 1)
    ELSE [dst_file |-> dst_file, identical_file_exists |-> FALSE,
          checks |-> same_name_appendix]

\* A collision loop that leaves out every other suffix.
RECURSIVE CollisionLoop_SkipsSuffix(_, _, _, _, _)
CollisionLoop_SkipsSuffix(src_file, dst_file, dst_root, dst_ext, same_name_appendix) ==
    IF dst_file \in DOMAIN fs \/ (test /\ dst_file \in DOMAIN test_file_dict)
    THEN IF ~keep /\ filecmp_cmp(src_file, IF dst_file \in DOMAIN fs THEN dst_file
                                            ELSE test_file_dict[dst_file])
         THEN [dst_file |-> dst_file, identical_file_exists |-> TRUE,
               checks |-> same_name_appendix]
         ELSE CollisionLoop_SkipsSuffix(src_file,
                  dst_root \o <<"_">> \o StrOf(same_name_appendix) \o dst_ext,
                  dst_root, dst_ext, same_name_appendix + 2)
    ELSE [dst_file |-> dst_file, identical_file_exists |-> FALSE,
          checks |-> same_name_appendix]

\* A collision loop that takes the first candidate path whatever is there.
CollisionLoop_FirstCandidate(src_file, dst_file, dst_root, dst_ext, same_name_appendix) ==
    [dst_file |-> dst_file, identical_file_exists |-> FALSE,
     checks |-> same_name_appendix]

\* A collision loop that looks at the disk only, never at the dry run's ledger.
RECURSIVE CollisionLoop_DiskOnly(_, _, _, _, _)
CollisionLoop_DiskOnly(src_file, dst_file, dst_root, dst_ext, same_name_appendix) ==
    IF dst_file \in DOMAIN fs
    THEN IF ~keep /\ filecmp_cmp(src_file, dst_file)
         THEN [dst_file |-> dst_file, identical_file_exists |-> TRUE,
               checks |-> same_name_appendix]
         ELSE CollisionLoop_DiskOnly(src_file,
                                     dst_root \o <<"_">> \o StrOf(same_name_appendix) \o dst_ext,
                                     dst_root, dst_ext, same_name_appendix + 1)
    ELSE [dst_file |-> dst_file, identical_file_exists |-> FALSE,
          checks |-> same_name_appendix]

\* Lines 317-340: the collision loop, from the candidate dst_file on. It yields the
\* path it ends on, whether an identical file was found there, and the number of
\* candidates it looked at.
RECURSIVE CollisionLoop(_, _, _, _, _)
CollisionLoop(src_file, dst_file, dst_root, dst_ext, same_name_appendix) ==
    LET same_filename_exists == dst_file \in DOMAIN fs
    IN  IF same_filename_exists \/ (test /\ dst_file \in DOMAIN test_file_dict)
        THEN LET dst_compare == IF same_filename_exists THEN dst_file
                                ELSE test_file_dict[dst_file]
             IN  IF ~keep /\ filecmp_cmp(src_file, dst_compare)
                 THEN [dst_file |-> dst_file, identical_file_exists |-> TRUE,
                       checks |-> same_name_appendix]
                 ELSE CollisionLoop(src_file,
                                    dst_root \o <<"_">> \o StrOf(same_name_appendix) \o dst_ext,
                                    dst_root, dst_ext, same_name_appendix + 1)
        ELSE [dst_file |-> dst_file, identical_file_exists |-> FALSE,
              checks |-> same_name_appendix]

\* Lines 309-340: the destination of a dated file.
Placement(src_file, date) ==
    CHOOSE placed \in {CollisionLoop(src_file, dst_file, Splitext(dst_file)[1],
                                     Splitext(dst_file)[2], 1) :
                          dst_file \in {PathJoin(DstFolder(date),
                                                 OutputFilename(src_file, date))}} : TRUE

\* A map with one key set.
SetKey(map, key, value) ==
    [k \in DOMAIN map \cup {key} |-> IF k = key THEN value ELSE map[k]]

\* A map with one key removed.
DelKey(map, key) == [k \in DOMAIN map \ {key} |-> map[k]]

\* What the iteration leaves of itself in the history.
Step(src_file, steps, outcome, dst_file) ==
    [src |-> src_file, steps |-> steps, outcome |-> outcome, dst |-> dst_file,
     mode |-> IF test THEN "TEST" ELSE IF copy THEN "COPY" ELSE "MOVE"]

\* Lines 250: get_date raises; nothing catches it and the run ends there.
IterationRaises(src_file, resolved) ==
    /\ resolved.exc # NoExc
    /\ pc' = "raised"
    /\ trace' = Append(trace, Step(src_file, <<"get_date">>, "raised", <<>>))
    /\ UNCHANGED <<fs, dirs, test_file_dict, num_ignored, num_duplicates,
                   num_processed, processed>>

\* An ignored path that no counter counts.
IterationIgnoresPath_Uncounted(src_file, resolved) ==
    /\ resolved.exc = NoExc
    /\ IgnoredPath(src_file)
    /\ trace' = Append(trace, Step(src_file, <<"get_date", "ignore_check">>, "ignored", <<>>))
    /\ UNCHANGED <<fs, dirs, test_file_dict, num_ignored, num_duplicates, num_processed,
                   processed, pc>>

\* Lines 261-276: the path is one to ignore.
IterationIgnoresPath(src_file, resolved) ==
    /\ resolved.exc = NoExc
    /\ IgnoredPath(src_file)
    /\ num_ignored' = num_ignored + 1
    /\ trace' = Append(trace, Step(src_file, <<"get_date", "ignore_check">>, "ignored", <<>>))
    /\ UNCHANGED <<fs, dirs, test_file_dict, num_duplicates, num_processed,
                   processed, pc>>

\* Lines 278-283: no date.
IterationIgnoresUndated(src_file, resolved) ==
    /\ resolved.exc = NoExc
    /\ ~IgnoredPath(src_file)
    /\ resolved.date = None
    /\ num_ignored' = num_ignored + 1
    /\ trace' = Append(trace, Step(src_file, <<"get_date", "ignore_check", "date_check">>,
                                   "ignored", <<>>))
    /\ UNCHANGED <<fs, dirs, test_file_dict, num_duplicates, num_processed,
                   processed, pc>>

\* A dry run that reserves nothing.
AfterClaim_Never(src_file, dst_file) == test_file_dict

\* Lines 341-342: the ledger after the chosen path was entered.
AfterClaim(src_file, dst_file) ==
    IF test THEN SetKey(test_file_dict, dst_file, src_file) ELSE test_file_dict

\* Lines 294-297: the folders there are after the destination's folders were made.
AfterMakedirs(date) ==
    IF test THEN dirs
    ELSE dirs \cup UNION {{f} \cup Ancestors(f) :
                           f \in {g \in DstFolders(date) : g \notin dirs /\ g \notin DOMAIN fs}}

\* A duplicate's removal that does not ask whether the run is a dry run.
AfterRemove_AlsoInDryRun(src_file) ==
    IF ~copy THEN DelKey(fs, src_file) ELSE fs

\* Lines 347-351: the files there are after a duplicate was dealt with.
AfterRemove(src_file) ==
    IF ~test /\ ~copy THEN DelKey(fs, src_file) ELSE fs

\* Lines 355-358: the files there are after the copy or move.
AfterTransfer(src_file, dst_file) ==
    IF test THEN fs
    ELSE IF copy THEN SetKey(fs, dst_file, fs[src_file])
    ELSE SetKey(DelKey(fs, src_file), dst_file, fs[src_file])

\* Lines 285-359: the file has a date: folders, name, collision loop, ledger, and
\* the move, copy or removal.
IterationPlaces(src_file, resolved) ==
    /\ resolved.exc = NoExc
    /\ ~IgnoredPath(src_file)
    /\ resolved.date # None
    /\ \E placed \in {Placement(src_file, resolved.date[1])} :
       LET date == resolved.date[1]
           dst_file == placed.dst_file
       IN  /\ dirs' = AfterMakedirs(date)
           /\ test_file_dict' = AfterClaim(src_file, dst_file)
           /\ IF placed.identical_file_exists
              THEN /\ num_duplicates' = num_duplicates + 1
                   /\ fs' = AfterRemove(src_file)
                   /\ trace' = Append(trace, Step(src_file,
                                   <<"get_date", "ignore_check", "date_check", "collision_loop">>,
                                   "duplicate", dst_file))
                   /\ UNCHANGED <<num_processed, processed>>
              ELSE /\ num_processed' = num_processed + 1
                   /\ processed' = Append(processed, <<src_file, dst_file>>)
                   /\ fs' = AfterTransfer(src_file, dst_file)
                   /\ trace' = Append(trace, Step(src_file,
                                   <<"get_date", "ignore_check", "date_check", "collision_loop">>,
                                   "processed", dst_file))
                   /\ UNCHANGED num_duplicates
           /\ UNCHANGED <<num_ignored, pc>>

\* Lines 244-359: one pass of the loop body over the record data.
Iteration(data) ==
    \E resolved \in {get_date(data, media_type)} :
        LET src_file == data["SourceFile"]
        IN  /\ metadata' = Append(metadata, data)
            /\ idx' = idx + 1
            /\ \/ IterationRaises(src_file, resolved)
               \/ IterationIgnoresPath(src_file, resolved)
               \/ IterationIgnoresUndated(src_file, resolved)
               \/ IterationPlaces(src_file, resolved)

(***************************************************************************)
(* The runs checked: files, records and options                            *)
(***************************************************************************)

GoodStamp == <<"2", "0", "2", "1", ":", "0", "6", ":", "0", "1", " ", "1", "2", ":", "0", "0", ":", "0", "0">>

\* The files of the source directory: path below it, content, the text of the date
\* tag, of File:FileModifyDate, and the GPS position (<<>>: no such tags).
SourcePool ==
    {[rel |-> <<"a", ".", "j", "p", "g">>, content |-> 1, stamp |-> GoodStamp,
      fstamp |-> <<"2", "0", "2", "1", ":", "0", "6", ":", "0", "1", " ", "2", "1", ":", "0", "0", ":", "0", "2", "+", "0", "9", ":", "0", "0">>, gps |-> <<>>],
     [rel |-> <<"t", "/", "a", ".", "j", "p", "g">>, content |-> 1, stamp |-> GoodStamp,
      fstamp |-> <<"2", "0", "2", "1", ":", "0", "6", ":", "0", "3", " ", "0", "8", ":", "0", "0", ":", "0", "0", "+", "0", "2", ":", "0", "0">>, gps |-> <<35, 139>>],
     [rel |-> <<"u", "/", "a", ".", "j", "p", "g">>, content |-> 2, stamp |-> GoodStamp,
      fstamp |-> <<"2", "0", "2", "1", ":", "0", "6", ":", "0", "1", " ", "1", "2", ":", "0", "0", ":", "0", "1">>, gps |-> <<0, 0>>],
     [rel |-> <<"2", "0", "2", "1", "/", "0", "6", "/", "a", ".", "j", "p", "g">>, content |-> 4, stamp |-> GoodStamp,
      fstamp |-> <<"2", "0", "2", "1", ":", "0", "6", ":", "0", "3", " ", "0", "8", ":", "0", "0", ":", "0", "0", "+", "0", "2", ":", "0", "0">>, gps |-> <<>>],
     [rel |-> <<"v", "/", "a", ".", "j", "p", "g">>, content |-> 5, stamp |-> GoodStamp,
      fstamp |-> <<"2", "0", "2", "1", ":", "0", "6", ":", "0", "1", " ", "2", "1", ":", "0", "0", ":", "0", "4", "+", "0", "9", ":", "0", "0">>, gps |-> <<>>],
     [rel |-> <<".", "t", "r", "a", "s", "h", "/", "a", ".", "j", "p", "g">>, content |-> 1, stamp |-> <<"a", "b", "c", "d", ":", "0", "1", ":", "0", "1">>,
      fstamp |-> <<"2", "0", "2", "1", ":", "0", "6", ":", "0", "3", " ", "0", "8", ":", "0", "0", ":", "0", "0", "+", "0", "2", ":", "0", "0">>, gps |-> <<>>],
     [rel |-> <<"b", ".", "J", "P", "E", "G">>, content |-> 2, stamp |-> <<"0", "0", "0", "0", ":", "0", "0", ":", "0", "0", " ", "0", "0", ":", "0", "0", ":", "0", "0">>,
      fstamp |-> <<"2", "0", "2", "1", ":", "0", "6", ":", "0", "3", " ", "0", "8", ":", "0", "0", ":", "0", "0", "+", "0", "2", ":", "0", "0">>, gps |-> <<>>],
     [rel |-> <<"c", ".", "j", "p", "g">>, content |-> 3, stamp |-> <<"2", "0", "2", "0", ":", "0", "1", ":", "1", "5", " ", "1", "x", ":", "0", "0", ":", "0", "0">>,
      fstamp |-> <<"2", "0", "2", "1", ":", "0", "6", ":", "0", "3", " ", "0", "8", ":", "0", "0", ":", "0", "0", "+", "0", "2", ":", "0", "0">>, gps |-> <<>>]}

SourceDirs == {<<"s">>, <<"d">>, <<"@", "e", "a", "D", "i", "r">>, <<".">>, <<"n">>}

\* The files ExifTool finds below the source directory. The directory n holds
\* files told apart by their extensions: upper case, .JPEG, mixed case, and none.
Pool(dir) ==
    IF dir = <<"n">>
    THEN {[rel |-> <<"a", ".", "J", "P", "G">>, content |-> 6, stamp |-> GoodStamp,
           fstamp |-> <<"2", "0", "2", "1", ":", "0", "6", ":", "0", "3", " ", "0", "8", ":", "0", "0", ":", "0", "0", "+", "0", "2", ":", "0", "0">>, gps |-> <<>>],
          [rel |-> <<"b", ".", "J", "P", "E", "G">>, content |-> 7, stamp |-> GoodStamp,
           fstamp |-> <<"2", "0", "2", "1", ":", "0", "6", ":", "0", "3", " ", "0", "8", ":", "0", "0", ":", "0", "0", "+", "0", "2", ":", "0", "0">>, gps |-> <<>>],
          [rel |-> <<"e", ".", "J", "p", "e", "g">>, content |-> 8, stamp |-> GoodStamp,
           fstamp |-> <<"2", "0", "2", "1", ":", "0", "6", ":", "0", "3", " ", "0", "8", ":", "0", "0", ":", "0", "0", "+", "0", "2", ":", "0", "0">>, gps |-> <<>>],
          [rel |-> <<"r">>, content |-> 9, stamp |-> GoodStamp,
           fstamp |-> <<"2", "0", "2", "1", ":", "0", "6", ":", "0", "3", " ", "0", "8", ":", "0", "0", ":", "0", "0", "+", "0", "2", ":", "0", "0">>, gps |-> <<>>],
          [rel |-> <<"q">>, content |-> 10, stamp |-> GoodStamp,
           fstamp |-> <<"2", "0", "2", "1", ":", "0", "6", ":", "0", "3", " ", "0", "8", ":", "0", "0", ":", "0", "0", "+", "0", "2", ":", "0", "0">>, gps |-> <<>>]}
    ELSE IF dir = <<"@", "e", "a", "D", "i", "r">>
    THEN {e \in SourcePool : e.rel \in {<<"a", ".", "j", "p", "g">>, <<"b", ".", "J", "P", "E", "G">>}}
    ELSE IF dir = <<".">>
    THEN {e \in SourcePool : e.rel \in {<<"a", ".", "j", "p", "g">>, <<"u", "/", "a", ".", "j", "p", "g">>}}
    ELSE SourcePool

SourcePath(dir, e) == PathJoin(dir, e.rel)

\* The record ExifTool returns for a file: the tags sort() asked for (lines 200-205).
Record(dir, e, mtype) ==
    LET keys == IF mtype = "photo" THEN {"SourceFile", TAG_DATE_PHOTO}
                ELSE {"SourceFile", TAG_DATE_VIDEO, TAG_DATE_FILE}
                     \cup (IF e.gps = <<>> THEN {} ELSE {TAG_GPS_LATITUDE, TAG_GPS_LONGITUDE})
    IN  [k \in keys |->
            CASE k = "SourceFile" -> SourcePath(dir, e)
              [] k = TAG_DATE_PHOTO -> e.stamp
              [] k = TAG_DATE_VIDEO -> e.stamp
              [] k = TAG_DATE_FILE -> e.fstamp
              [] k = TAG_GPS_LATITUDE -> e.gps[1]
              [] k = TAG_GPS_LONGITUDE -> e.gps[2]]

SourceFiles(dir) == [p \in {SourcePath(dir, e) : e \in Pool(dir)} |->
                        (CHOOSE e \in Pool(dir) : SourcePath(dir, e) = p).content]

\* What the destination holds before the run: nothing, or a file of content 1 where
\* the records dated June 2021 and named a.jpg go.
TakenPath == <<"d", "/", "2", "0", "2", "1", "/", "0", "6", "/", "a", ".", "j", "p", "g">>

InitialFiles(dir) ==
    IF TakenPath \in DOMAIN SourceFiles(dir) \/ dir = <<"n">> THEN {SourceFiles(dir)}
    ELSE {SourceFiles(dir), SetKey(SourceFiles(dir), TakenPath, 1)}

\* -f: none, %Y%m%d, and for the files of n a pattern with dots, %Y.%m.%d
FilenameFormats ==
    {None, Some(<<"%", "Y", "%", "m", "%", "d">>),
     Some(<<"%", "Y", ".", "%", "m", ".", "%", "d">>)}

Init ==
    /\ text = <<>>
    /\ results = <<>>
    /\ use_local_time = FALSE
    /\ src_dir \in SourceDirs
    /\ media_type \in IF src_dir = <<"n">> THEN {"photo"} ELSE {"photo", "video"}
    /\ copy \in BOOLEAN
    /\ keep \in BOOLEAN
    /\ test \in BOOLEAN
    /\ filename_format \in {f \in FilenameFormats :
                               (f = Some(<<"%", "Y", ".", "%", "m", ".", "%", "d">>))
                                   <=> (f # None /\ src_dir = <<"n">>)}
    /\ fs0 \in InitialFiles(src_dir)
    /\ fs = fs0
    /\ dirs = {dst_dir} \cup UNION {Ancestors(p) : p \in DOMAIN fs0}
    /\ metadata = <<>>
    /\ idx = 0
    /\ test_file_dict = <<>>
    /\ num_ignored = 0
    /\ num_duplicates = 0
    /\ num_processed = 0
    /\ processed = <<>>
    /\ pc = "loop"
    /\ trace = <<>>

\* The loop takes the next record of the metadata: a file of the source directory
\* it has not had yet.
SortRecord ==
    /\ pc = "loop"
    /\ idx < MaxRecords
    /\ \E e \in Pool(src_dir) :
          /\ SourcePath(src_dir, e) \notin {metadata[i]["SourceFile"] : i \in 1..Len(metadata)}
          /\ \E data \in {Record(src_dir, e, media_type)} : Iteration(data)
    /\ UNCHANGED <<parseVars, media_type, copy, keep, test, filename_format, src_dir, fs0>>

\* Lines 361-371: the records are through; the counts are reported.
Finish ==
    /\ pc = "loop"
    /\ pc' = "done"
    /\ UNCHANGED <<parseVars, media_type, copy, keep, test, filename_format, metadata, idx,
                   fs, dirs, test_file_dict, num_ignored, num_duplicates, num_processed,
                   processed, src_dir, fs0, trace>>

Next == SortRecord \/ Finish

Spec == Init /\ [][Next]_vars

(***************************************************************************)
(* The batch run a second time on the same records                         *)
(***************************************************************************)

\* The number of records the first run looped over, while the second runs.
FirstRunLength == Len(trace) - Len(metadata)

\* sort() is called again, as a real run, for the records of the run that just
\* ended, in their order (lines 228-242 once more). The first run was a dry run or
\* one in copy mode, so every source file is still where it was.
Rerun ==
    /\ pc \in {"done", "raised"}
    /\ Len(metadata) > 0
    /\ Len(trace) = Len(metadata)
    /\ test \/ copy
    /\ test' = FALSE
    /\ metadata' = <<>>
    /\ idx' = 0
    /\ test_file_dict' = <<>>
    /\ num_ignored' = 0
    /\ num_duplicates' = 0
    /\ num_processed' = 0
    /\ processed' = <<>>
    /\ pc' = "replay"
    /\ UNCHANGED <<parseVars, media_type, copy, keep, filename_format, fs, dirs,
                   src_dir, fs0, trace>>

\* Lines 244-359 for the next record of the first run's list.
SortRecordAgain ==
    /\ pc = "replay"
    /\ idx < FirstRunLength
    /\ \E e \in Pool(src_dir) :
          /\ SourcePath(src_dir, e) = trace[idx + 1].src
          /\ \E data \in {Record(src_dir, e, media_type)} : Iteration(data)
    /\ UNCHANGED <<parseVars, media_type, copy, keep, test, filename_format, src_dir, fs0>>

\* Lines 361-371: the second run is through its records.
FinishAgain ==
    /\ pc = "replay"
    /\ idx = FirstRunLength
    /\ pc' = "replayed"
    /\ UNCHANGED <<parseVars, media_type, copy, keep, test, filename_format, metadata, idx,
                   fs, dirs, test_file_dict, num_ignored, num_duplicates, num_processed,
                   processed, src_dir, fs0, trace>>

NextRerun == SortRecord \/ Finish \/ Rerun \/ SortRecordAgain \/ FinishAgain

SpecRerun == Init /\ [][NextRerun]_vars

(***************************************************************************)
(* Properties of the batch loop                                            *)
(***************************************************************************)

\* The path lies in the destination tree.
InDestination(path) == StartsWith(path, dst_dir \o <<"/">>)

\* The sources the run has moved away or removed so far.
TakenSources ==
    IF test \/ copy THEN {}
    ELSE {trace[i].src : i \in {j \in 1..Len(trace) :
                                  trace[j].outcome \in {"processed", "duplicate"}}}

\* The text of the tag get_date reads first for the run's media type.
BaseTag(data) == IF media_type = "photo" THEN data[TAG_DATE_PHOTO] ELSE data[TAG_DATE_VIDEO]

\* C1: in a real run in move mode with duplicate removal, a source file is deleted
\* by the duplicate branch only if, after the deletion, a file with identical
\* content still exists in the destination; also for a record whose source path is
\* the path planned as its destination.
C1_DuplicateRemovalKeepsContent ==
    [][\A p \in DOMAIN fs :
          (/\ ~test /\ ~copy /\ ~keep
           /\ num_duplicates' = num_duplicates + 1
           /\ p \notin DOMAIN fs')
          => \E q \in DOMAIN fs' : InDestination(q) /\ fs'[q] = fs[p]]_vars

\* C2 as claimed: at the end of a real run every file that was in the destination
\* before the run, and every file placed earlier in the run, still has its original
\* content.
C2_DestinationFilesKeepContent ==
    (pc = "done" /\ ~test) =>
        /\ \A p \in DOMAIN fs0 :
              InDestination(p) => (p \in DOMAIN fs /\ fs[p] = fs0[p])
        /\ \A i \in 1..Len(processed) :
              /\ processed[i][2] \in DOMAIN fs
              /\ fs[processed[i][2]] = fs0[processed[i][1]]

\* C2 as amended: in a real run the batch never overwrites a file: a move or copy
\* is issued only to a destination path at which no file exists at that moment, so
\* at every moment every file that was in the destination before the run and is
\* not a source file the run itself has moved or removed, and every file placed
\* earlier in the run, still has its original content.
C2_NoFileOverwritten ==
    [][~test =>
          /\ Len(processed') > Len(processed)
             => processed'[Len(processed')][2] \notin DOMAIN fs
          /\ \A p \in DOMAIN fs0 :
                (InDestination(p) /\ p \notin TakenSources')
                => (p \in DOMAIN fs' /\ fs'[p] = fs0[p])
          /\ \A i \in 1..Len(processed') :
                /\ processed'[i][2] \in DOMAIN fs'
                /\ fs'[processed'[i][2]] = fs0[processed'[i][1]]]_vars

\* C2 witness: a real run is over in which the destination held a file beforehand
\* and a record whose name was taken has been placed beside it under a suffix.
C2_Witness ==
    /\ pc = "done" /\ ~test
    /\ TakenPath \in DOMAIN fs0 /\ TakenPath \notin TakenSources
    /\ \E i \in 1..Len(processed) :
          processed[i][2] = <<"d", "/", "2", "0", "2", "1", "/", "0", "6", "/", "a", "_", "1", ".", "j", "p", "g">>

\* C3: within one run, real or dry, the destinations of the (source, destination)
\* pairs of the processed list are pairwise distinct.
C3_DistinctDestinations ==
    \A i, j \in 1..Len(processed) :
        i # j => processed[i][2] # processed[j][2]

\* C3 witness: a dry run has assigned one name and then, to a different file of
\* the same name, the name with the suffix _1.
C3_Witness ==
    /\ test
    /\ Len(processed) >= 2
    /\ processed[1][2] = TakenPath
    /\ processed[2][2] = <<"d", "/", "2", "0", "2", "1", "/", "0", "6", "/", "a", "_", "1", ".", "j", "p", "g">>

\* C4: the dry run's ledger is write-once per key: a destination once claimed by a
\* source is not assigned again in the same run.
C4_LedgerWriteOnce ==
    [][\A k \in DOMAIN test_file_dict :
          k \in DOMAIN test_file_dict' /\ test_file_dict'[k] = test_file_dict[k]]_vars

\* C5: the ignorable-path check runs before date resolution: a record whose source
\* path is one to ignore is never passed to get_date and is counted as ignored.
C5_IgnoredBeforeResolution ==
    \A i \in 1..Len(trace) :
        IgnoredPath(trace[i].src) =>
            /\ trace[i].outcome = "ignored"
            /\ \A k \in 1..Len(trace[i].steps) : trace[i].steps[k] # "get_date"

\* C6: an unparseable timestamp is never a hard failure: parse_date returns a pair
\* or (None, None) without raising, a record without a date is counted as ignored,
\* and the batch goes on with the next record.
C6_UnparseableNeverFatal ==
    /\ pc # "raised"
    /\ \A i \in 1..Len(metadata) :
          /\ parse_date(BaseTag(metadata[i])).exc = NoExc
          /\ (parse_date(BaseTag(metadata[i])).date = None => trace[i].outcome = "ignored")

(***************************************************************************)
(* Properties of placement                                                 *)
(***************************************************************************)

\* The record has a path that is not ignored and a date.
Dated(data) ==
    /\ ~IgnoredPath(data["SourceFile"])
    /\ get_date(data, media_type).exc = NoExc
    /\ get_date(data, media_type).date # None

\* The path planned for a dated record before any collision is looked at.
PlannedPath(data) ==
    PathJoin(DstFolder(get_date(data, media_type).date[1]),
             OutputFilename(data["SourceFile"], get_date(data, media_type).date[1]))

\* The n-th name of the chain that starts at a path: the path, then root_1.ext, ...
ChainName(path, n) ==
    IF n = 0 THEN path
    ELSE Splitext(path)[1] \o <<"_">> \o StrOf(n) \o Splitext(path)[2]

\* The paths taken, on disk or, in a dry run, in the ledger, and what is there.
OccupiedPaths == DOMAIN fs \cup (IF test THEN DOMAIN test_file_dict ELSE {})

OccupantContent(path) ==
    IF path \in DOMAIN fs THEN fs[path] ELSE fs[test_file_dict[path]]

\* Walking the chain of a path past the names whose occupants are not taken to be
\* equal to the source, the name number n holds the source's content.
ChainHitAt(src_file, path, n) ==
    /\ ChainName(path, n) \in OccupiedPaths
    /\ OccupantContent(ChainName(path, n)) = fs[src_file]
    /\ \A m \in 0..(n - 1) :
          /\ ChainName(path, m) \in OccupiedPaths
          /\ OccupantContent(ChainName(path, m)) # fs[src_file]
          /\ StatSignature(OccupantContent(ChainName(path, m))) # StatSignature(fs[src_file])

\* The record the step just taken has handled, and its step in the history.
HandledRecord == metadata'[Len(metadata')]

HandledStep == trace'[Len(trace')]

\* The outcomes of the first k records of the history.
CountOutcome(outcome, k) == Cardinality({i \in 1..k : trace[i].outcome = outcome})

RECURSIVE ProcessedPairs(_)
ProcessedPairs(k) ==
    IF k = 0 THEN <<>>
    ELSE IF trace[k].outcome = "processed"
    THEN Append(ProcessedPairs(k - 1), <<trace[k].src, trace[k].dst>>)
    ELSE ProcessedPairs(k - 1)

\* C15: in copy mode with duplicate removal, the same batch run a second time on
\* the destination the first run produced adds no file, processes nothing, and
\* counts as duplicates exactly the dated files that are not ignored.
C15_SecondRunAllDuplicates ==
    [][(/\ pc = "replay" /\ ~keep /\ trace[1].mode = "COPY"
        /\ Len(metadata') = Len(metadata) + 1) =>
          /\ fs' = fs
          /\ dirs' = dirs
          /\ num_processed' = 0
          /\ processed' = <<>>
          /\ num_duplicates' = Cardinality({i \in 1..Len(metadata') : Dated(metadata'[i])})]_vars

\* C15 witness: a first run in copy mode has placed a file under the suffix _1 and
\* skipped a duplicate, and the second run is through with three duplicates.
C15_Witness ==
    /\ pc = "replayed" /\ ~keep /\ trace[1].mode = "COPY"
    /\ num_duplicates = 3
    /\ \E i \in 1..FirstRunLength : trace[i].outcome = "processed" /\ trace[i].dst = <<"d", "/", "2", "0", "2", "1", "/", "0", "6", "/", "a", "_", "1", ".", "j", "p", "g">>
    /\ \E i \in 1..FirstRunLength : trace[i].outcome = "duplicate"

\* C16: in a destination empty before the run, files of one run that map to the
\* same directory and name and differ pairwise in content get name.ext, name_1.ext,
\* name_2.ext, ... in the order they are processed, the suffix always appended to
\* the original root.
C16_CollisionChainNames ==
    (\A p \in DOMAIN fs0 : ~InDestination(p)) =>
        \A planned \in {[r \in 1..Len(metadata) |->
                           IF Dated(metadata[r]) THEN PlannedPath(metadata[r]) ELSE <<>>]} :
        \A i \in 1..Len(metadata) :
            planned[i] # <<>> =>
                \A group \in {{j \in 1..i : planned[j] = planned[i]}} :
                    (\A j, k \in group : j # k => fs0[trace[j].src] # fs0[trace[k].src]) =>
                        /\ trace[i].outcome = "processed"
                        /\ trace[i].dst = ChainName(planned[i], Cardinality(group) - 1)

\* C17 as claimed: with duplicate removal, a file whose chain reaches a path holding
\* content identical to it is counted as a duplicate at that path and not processed,
\* the destination tree is left unchanged, and the source is untouched in copy mode
\* and removed in move mode.
C17_DuplicateLeavesDestination ==
    [][(Len(metadata') = Len(metadata) + 1 /\ ~keep) =>
          \A src_file \in {HandledStep.src} :
          \A planned \in {IF Dated(HandledRecord) THEN PlannedPath(HandledRecord) ELSE <<>>} :
            (planned # <<>> /\ (\E n \in 0..Cardinality(OccupiedPaths) : ChainHitAt(src_file, planned, n))) =>
              /\ num_duplicates' = num_duplicates + 1
              /\ num_processed' = num_processed /\ processed' = processed
              /\ HandledStep.outcome = "duplicate"
              /\ \E n \in 0..Cardinality(OccupiedPaths) :
                    /\ ChainHitAt(src_file, planned, n)
                    /\ HandledStep.dst = ChainName(planned, n)
              /\ dirs' = dirs
              /\ \A p \in DOMAIN fs \cup DOMAIN fs' :
                    InDestination(p) => (p \in DOMAIN fs /\ p \in DOMAIN fs' /\ fs'[p] = fs[p])
              /\ HandledStep.mode \in {"COPY"} => fs' = fs
              /\ HandledStep.mode = "MOVE" => src_file \notin DOMAIN fs']_vars

\* C17 as amended: with duplicate removal, a file whose chain reaches a path holding
\* content identical to it is counted as a duplicate at that path and not processed,
\* the destination tree is left unchanged apart from the source itself where it
\* lies in the destination tree, and the source is untouched in copy mode and in a
\* dry run and removed in move mode.
C17_DuplicateOutcome ==
    [][(Len(metadata') = Len(metadata) + 1 /\ ~keep) =>
          \A src_file \in {HandledStep.src} :
          \A planned \in {IF Dated(HandledRecord) THEN PlannedPath(HandledRecord) ELSE <<>>} :
            (planned # <<>> /\ (\E n \in 0..Cardinality(OccupiedPaths) : ChainHitAt(src_file, planned, n))) =>
              /\ num_duplicates' = num_duplicates + 1
              /\ num_processed' = num_processed /\ processed' = processed
              /\ HandledStep.outcome = "duplicate"
              /\ \E n \in 0..Cardinality(OccupiedPaths) :
                    /\ ChainHitAt(src_file, planned, n)
                    /\ HandledStep.dst = ChainName(planned, n)
              /\ dirs' = dirs
              /\ \A p \in (DOMAIN fs \cup DOMAIN fs') \ {src_file} :
                    InDestination(p) => (p \in DOMAIN fs /\ p \in DOMAIN fs' /\ fs'[p] = fs[p])
              /\ HandledStep.mode \in {"COPY", "TEST"} => fs' = fs
              /\ HandledStep.mode = "MOVE" => src_file \notin DOMAIN fs']_vars

\* C17 witness: in move mode a file was found identical to the file at the suffixed
\* path a_1.jpg, counted as a duplicate there, and removed from the source.
C17_Witness ==
    /\ ~keep /\ ~test /\ ~copy /\ src_dir = <<"s">>
    /\ Len(trace) = 3
    /\ trace[3].outcome = "duplicate"
    /\ trace[3].dst = <<"d", "/", "2", "0", "2", "1", "/", "0", "6", "/", "a", "_", "1", ".", "j", "p", "g">>
    /\ trace[3].src \notin DOMAIN fs
    /\ num_duplicates = 1

\* C18: a dry run leaves the filesystem as it was: no folder is made and no file is
\* copied, moved or removed, whatever becomes of the records.
C18_DryRunLeavesFilesystem ==
    test => /\ fs = fs0
            /\ dirs = {dst_dir} \cup UNION {Ancestors(p) : p \in DOMAIN fs0}

\* C18 witness: a dry run in move mode is through a record it ignored, one it found
\* a duplicate and one it processed.
C18_Witness ==
    /\ test /\ ~copy /\ pc = "done"
    /\ \E i \in 1..Len(trace) : trace[i].outcome = "ignored"
    /\ \E i \in 1..Len(trace) : trace[i].outcome = "duplicate"
    /\ \E i \in 1..Len(trace) : trace[i].outcome = "processed"

C20_CollisionLoopBounded ==
    [][Len(metadata') = Len(metadata) + 1 =>
          \A src_file \in {HandledStep.src} :
          \A planned \in {IF Dated(HandledRecord) THEN PlannedPath(HandledRecord) ELSE <<>>} :
            planned # <<>> =>
                \A placed \in {CollisionLoop(src_file, planned, Splitext(planned)[1],
                                             Splitext(planned)[2], 1)} :
                    /\ placed.checks >= 1
                    /\ placed.checks <= Cardinality(OccupiedPaths) + 1
                    /\ placed.dst_file = ChainName(planned, placed.checks - 1)
                    /\ HandledStep.dst = placed.dst_file
                    /\ \A m \in 0..(placed.checks - 2) :
                          ChainName(planned, m) \in OccupiedPaths]_vars

\* C20 witness: two names of a chain are taken and the loop, run for a third file,
\* has looked at three candidates and placed it as a_2.jpg.
C20_Witness ==
    /\ Len(trace) = 3
    /\ trace[3].outcome = "processed"
    /\ trace[3].dst = <<"d", "/", "2", "0", "2", "1", "/", "0", "6", "/", "a", "_", "2", ".", "j", "p", "g">>
    /\ TakenPath \in OccupiedPaths
    /\ <<"d", "/", "2", "0", "2", "1", "/", "0", "6", "/", "a", "_", "1", ".", "j", "p", "g">> \in OccupiedPaths

C22_CounterPartition ==
    [][Len(metadata') = Len(metadata) + 1 =>
          \A handled \in {IF HandledStep.outcome = "raised" THEN 0 ELSE 1} :
              /\ num_ignored' \in {num_ignored, num_ignored + 1}
              /\ num_duplicates' \in {num_duplicates, num_duplicates + 1}
              /\ num_processed' \in {num_processed, num_processed + 1}
              /\ num_ignored' + num_duplicates' + num_processed'
                    = num_ignored + num_duplicates + num_processed + handled
              /\ num_ignored' + num_duplicates' + num_processed' = idx + handled
              /\ num_ignored' = CountOutcome("ignored", Len(trace))'
              /\ num_duplicates' = CountOutcome("duplicate", Len(trace))'
              /\ num_processed' = CountOutcome("processed", Len(trace))'
              /\ \/ processed' = processed
                 \/ processed' = Append(processed, <<HandledStep.src, HandledStep.dst>>)
              /\ Len(processed') = num_processed'
              /\ processed' = ProcessedPairs(Len(trace))']_vars

\* C22 witness: a run in copy mode is through an ignored record, a duplicate and a
\* processed one, and each counter stands at one.
C22_Witness ==
    /\ copy /\ ~test /\ ~keep /\ idx = 3
    /\ num_ignored = 1 /\ num_duplicates = 1 /\ num_processed = 1
    /\ Len(processed) = 1
    /\ trace[2].outcome = "duplicate"

\* C23: when duplicates are kept no file is classified as a duplicate, whatever
\* the files hold: the duplicate counter stays 0, and every record that is not
\* ignored and has a date is processed under the first name of its chain that is
\* not taken, the source's content going there in a real run.
C23_KeepNeverDuplicate ==
    [][(Len(metadata') = Len(metadata) + 1 /\ keep) =>
          /\ num_duplicates' = 0
          /\ HandledStep.outcome # "duplicate"
          /\ \A src_file \in {HandledStep.src} :
             \A planned \in {IF Dated(HandledRecord) THEN PlannedPath(HandledRecord) ELSE <<>>} :
                planned # <<>> =>
                    /\ HandledStep.outcome = "processed"
                    /\ \E n \in 0..Cardinality(OccupiedPaths) :
                          /\ HandledStep.dst = ChainName(planned, n)
                          /\ ChainName(planned, n) \notin OccupiedPaths
                          /\ \A m \in 0..(n - 1) : ChainName(planned, m) \in OccupiedPaths
                    /\ test => fs' = fs
                    /\ ~test => /\ HandledStep.dst \in DOMAIN fs'
                                /\ fs'[HandledStep.dst] = fs[src_file]
                                /\ \A p \in DOMAIN fs \ {src_file} :
                                      p \in DOMAIN fs' /\ fs'[p] = fs[p]
                                /\ copy <=> src_file \in DOMAIN fs']_vars

\* C23 witness: duplicates are kept, the planned path a.jpg held content 1, and a
\* source of content 1 was moved to a_1.jpg beside it.
C23_Witness ==
    /\ keep /\ ~test /\ ~copy /\ src_dir = <<"s">>
    /\ num_duplicates = 0 /\ num_processed = 1
    /\ TakenPath \in DOMAIN fs0 /\ fs[TakenPath] = 1
    /\ processed[1][2] = <<"d", "/", "2", "0", "2", "1", "/", "0", "6", "/", "a", "_", "1", ".", "j", "p", "g">>
    /\ fs[processed[1][2]] = 1

\* C25: without a filename pattern the destination's name is the source's
\* basename as it is; with one it is the formatted date and the source's extension
\* in lower case, .jpeg written as .jpg; a collision suffix _n stands before that
\* extension.
C25_OutputFilename ==
    [][(Len(metadata') = Len(metadata) + 1
        /\ HandledStep.outcome \in {"processed", "duplicate"}) =>
          \A date \in {get_date(HandledRecord, media_type).date[1]} :
          \A name \in {Basename(HandledStep.src)} :
          \A dot \in {LastIn(name, {"."})} :
          \A stem \in {IF filename_format # None THEN Strftime(date, filename_format[1])
                       ELSE IF dot > 1 THEN SubSeq(name, 1, dot - 1) ELSE name} :
          \A ext \in {IF dot <= 1 THEN <<>>
                      ELSE IF filename_format = None THEN SubSeq(name, dot, Len(name))
                      ELSE IF Lower(SubSeq(name, dot, Len(name))) = <<".", "j", "p", "e", "g">>
                      THEN <<".", "j", "p", "g">>
                      ELSE Lower(SubSeq(name, dot, Len(name)))} :
              \E n \in 0..(MaxRecords + 1) :
                  HandledStep.dst =
                      PathJoin(DstFolder(date),
                               stem \o (IF n = 0 THEN <<>> ELSE <<"_">> \o StrOf(n)) \o ext)]_vars

(***************************************************************************)
(* The resolver on its own: one record, get_date called on it again and    *)
(* again                                                                   *)
(***************************************************************************)

DateTagTexts ==
    {GoodStamp,
     <<"2", "0", "2", "1", ":", "1", "2", ":", "3", "1">>,
     <<"2", "0", "2", "1", ":", "1", "2", ":", "3", "1", " ", "2", "3", ":", "5", "9", ":", "5", "8">>,
     <<"2", "0", "2", "1", ":", "0", "6", ":", "0", "1", " ", "1", "2", ":", "0", "0", ":", "0", "0", "+", "0", "2", ":", "0", "0">>,
     <<"2", "0", "2", "1", ":", "0", "6", ":", "0", "1", " ", "1", "2", ":", "0", "0", ":", "0", "0", "Z">>,
     <<"0", "0", "0", "0", ":", "0", "0", ":", "0", "0", " ", "0", "0", ":", "0", "0", ":", "0", "0">>,
     <<"2", "0", "2", "1", ":", "0", "6", ":", "0", "1", " ", "1", "x", ":", "0", "0", ":", "0", "0">>}

\* Texts of File:FileModifyDate: 0, 3 and 4 seconds off the base instant to either
\* side under +09:00, under -05:30, across the year's end, without an offset, with
\* Z, without a date, with a field that is no number, and the noon of the year's
\* last day under +11:59, -11:59 and +12:00.
FileTagTexts ==
    {<<"2", "0", "2", "1", ":", "1", "2", ":", "3", "1", " ", "2", "3", ":", "5", "9", ":", "0", "0", "+", "1", "1", ":", "5", "9">>,
     <<"2", "0", "2", "1", ":", "1", "2", ":", "3", "1", " ", "0", "0", ":", "0", "1", ":", "0", "0", "-", "1", "1", ":", "5", "9">>,
     <<"2", "0", "2", "2", ":", "0", "1", ":", "0", "1", " ", "0", "0", ":", "0", "0", ":", "0", "0", "+", "1", "2", ":", "0", "0">>,
     <<"2", "0", "2", "1", ":", "0", "6", ":", "0", "1", " ", "2", "1", ":", "0", "0", ":", "0", "0", "+", "0", "9", ":", "0", "0">>,
     <<"2", "0", "2", "1", ":", "0", "6", ":", "0", "1", " ", "2", "1", ":", "0", "0", ":", "0", "3", "+", "0", "9", ":", "0", "0">>,
     <<"2", "0", "2", "1", ":", "0", "6", ":", "0", "1", " ", "2", "1", ":", "0", "0", ":", "0", "4", "+", "0", "9", ":", "0", "0">>,
     <<"2", "0", "2", "1", ":", "0", "6", ":", "0", "1", " ", "2", "0", ":", "5", "9", ":", "5", "7", "+", "0", "9", ":", "0", "0">>,
     <<"2", "0", "2", "1", ":", "0", "6", ":", "0", "1", " ", "2", "0", ":", "5", "9", ":", "5", "6", "+", "0", "9", ":", "0", "0">>,
     <<"2", "0", "2", "1", ":", "0", "6", ":", "0", "1", " ", "0", "6", ":", "3", "0", ":", "0", "2", "-", "0", "5", ":", "3", "0">>,
     <<"2", "0", "2", "2", ":", "0", "1", ":", "0", "1", " ", "0", "8", ":", "5", "9", ":", "5", "9", "+", "0", "9", ":", "0", "0">>,
     <<"2", "0", "2", "1", ":", "0", "6", ":", "0", "1", " ", "1", "2", ":", "0", "0", ":", "0", "1">>,
     <<"2", "0", "2", "1", ":", "0", "6", ":", "0", "1", " ", "1", "2", ":", "0", "0", ":", "0", "2", "Z">>,
     <<"0", "0", "0", "0", ":", "0", "0", ":", "0", "0", " ", "0", "0", ":", "0", "0", ":", "0", "0">>,
     <<"2", "0", "2", "1", ":", "0", "6", ":", "0", "1", " ", "2", "x", ":", "0", "0", ":", "0", "0", "+", "0", "9", ":", "0", "0">>}

\* GPS positions <<latitude, longitude>> with each part there or not: none, one part
\* only, four zones, a position of no certain zone, a latitude out of range.
GpsTags ==
    {<<None, None>>, <<Some(35), None>>, <<None, Some(139)>>,
     <<Some(35), Some(139)>>, <<Some(28), Some(77)>>, <<Some(33), Some(-112)>>,
     <<Some(-14), Some(-171)>>,
     <<Some(0), Some(0)>>, <<Some(95), Some(0)>>}

Optional(values) == {None} \cup {Some(v) : v \in values}

\* A record with the tags given (each None or Some(value)).
TaggedRecord(photo, video, file, gps) ==
    LET keys == {"SourceFile"}
                \cup (IF photo = None THEN {} ELSE {TAG_DATE_PHOTO})
                \cup (IF video = None THEN {} ELSE {TAG_DATE_VIDEO})
                \cup (IF file = None THEN {} ELSE {TAG_DATE_FILE})
                \cup (IF gps[1] = None THEN {} ELSE {TAG_GPS_LATITUDE})
                \cup (IF gps[2] = None THEN {} ELSE {TAG_GPS_LONGITUDE})
    IN  [k \in keys |->
            CASE k = "SourceFile" -> <<"s", "/", "a", ".", "m", "p", "4">>
              [] k = TAG_DATE_PHOTO -> photo[1]
              [] k = TAG_DATE_VIDEO -> video[1]
              [] k = TAG_DATE_FILE -> file[1]
              [] k = TAG_GPS_LATITUDE -> gps[1][1]
              [] k = TAG_GPS_LONGITUDE -> gps[2][1]]

\* The records get_date is called on: a photo's tag beside any others, and the
\* video tags in every combination.
ResolveRecords ==
    {TaggedRecord(photo, video, file, gps) :
        photo \in Optional({GoodStamp, <<"2", "0", "2", "1", ":", "0", "6", ":", "0", "1", " ", "1", "2", ":", "0", "0", ":", "0", "0", "+", "0", "2", ":", "0", "0">>}),
        video \in Optional(DateTagTexts),
        file \in Optional(FileTagTexts),
        gps \in GpsTags}
    \cup {TaggedRecord(photo, None, file, <<None, None>>) :
            photo \in Optional(DateTagTexts),
            file \in Optional({<<"2", "0", "2", "1", ":", "0", "6", ":", "0", "1", " ", "2", "1", ":", "0", "0", ":", "0", "0", "+", "0", "9", ":", "0", "0">>})}

InitResolve ==
    /\ text = <<>>
    /\ results = <<>>
    /\ use_local_time = FALSE
    /\ media_type \in {"photo", "video"}
    /\ \E data \in ResolveRecords : metadata = <<data>>
    /\ copy = FALSE
    /\ keep = FALSE
    /\ test = FALSE
    /\ filename_format = None
    /\ idx = 0
    /\ fs = <<>>
    /\ dirs = {}
    /\ test_file_dict = <<>>
    /\ num_ignored = 0
    /\ num_duplicates = 0
    /\ num_processed = 0
    /\ processed = <<>>
    /\ pc = "done"
    /\ src_dir = <<>>
    /\ fs0 = <<>>
    /\ trace = <<>>

CallGetDate ==
    /\ Len(results) < MaxCalls
    /\ results' = Append(results, get_date(metadata[1], media_type))
    /\ UNCHANGED <<text, use_local_time, batchVars>>

NextResolve == CallGetDate

SpecResolve == InitResolve /\ [][NextResolve]_vars

(***************************************************************************)
(* Properties of the resolver                                              *)
(***************************************************************************)

\* The record under resolution.
TheRecord == metadata[1]

HasTag(tag) == tag \in DOMAIN TheRecord

\* QuickTime:CreateDate is there and parses to a base instant.
BaseParses ==
    /\ HasTag(TAG_DATE_VIDEO)
    /\ parse_date(TheRecord[TAG_DATE_VIDEO]).exc = NoExc
    /\ parse_date(TheRecord[TAG_DATE_VIDEO]).date # None

BaseInstant == parse_date(TheRecord[TAG_DATE_VIDEO]).date[1]

HasGps == HasTag(TAG_GPS_LATITUDE) /\ HasTag(TAG_GPS_LONGITUDE)

GpsOffset == get_offset(TheRecord[TAG_GPS_LATITUDE], TheRecord[TAG_GPS_LONGITUDE], BaseInstant)

\* No offset comes from GPS: a tag is missing or the resolver returned None.
NoGpsOffset == ~HasGps \/ GpsOffset = None

\* a - b in seconds, for dates less than some years apart
SecondsBetween(a, b) ==
    (ToOrdinal(a) - ToOrdinal(b)) * 86400 + SecondOfDay(a) - SecondOfDay(b)

\* An offset of o seconds as the provenance writes it: sign, blank, HH:MM.
OffsetText(o) ==
    <<(IF o < 0 THEN "-" ELSE "+"), " ">>
    \o Fmt2(Abs(o) \div 3600) \o <<":">> \o Fmt2((Abs(o) % 3600) \div 60)

AssumedLocal(date) == Resolved(date, <<TAG_DATE_VIDEO, "assumed in local time">>)

\* File:FileModifyDate as parsed, and whether its text writes an offset with + or -,
\* or carries no marker at all.
FileParsed == parse_date(TheRecord[TAG_DATE_FILE])

FileTimeToken == SplitWs(TheRecord[TAG_DATE_FILE])[2]

FileHasSignedOffset ==
    /\ Len(SplitWs(TheRecord[TAG_DATE_FILE])) >= 2
    /\ FirstIn(FileTimeToken, {"+", "-"}) # 0

FileHasNoMarker ==
    \/ Len(SplitWs(TheRecord[TAG_DATE_FILE])) < 2
    \/ FirstIn(FileTimeToken, {"+", "-", "Z"}) = 0

\* The file's time less its offset is within 3 seconds of the base instant.
FileCorroborates ==
    /\ SecondsBetween(FileParsed.date[1], BaseInstant) - FileParsed.offset[1] <= 3
    /\ SecondsBetween(FileParsed.date[1], BaseInstant) - FileParsed.offset[1] >= -3

\* C11: a video whose QuickTime:CreateDate parses to B, with both GPS tags and an
\* offset o from the resolver, resolves to B + o with a provenance naming GPS and
\* o, whether File:FileModifyDate is there or not and whatever it holds.
C11_GpsFirst ==
    (media_type = "video" /\ BaseParses /\ HasGps /\ GpsOffset # None) =>
        \A i \in 1..Len(results) :
            results[i] = Resolved(DatePlus(BaseInstant, GpsOffset[1]),
                                  <<TAG_DATE_VIDEO, "in UTC", OffsetText(GpsOffset[1]),
                                    "via GPS">>)

\* C11 witness: 2021:06:01 12:00:00 at a position of +09:00, beside a file date that
\* does not even parse, has resolved to 2021:06:01 21:00:00 via GPS.
C11_Witness ==
    /\ media_type = "video"
    /\ HasTag(TAG_DATE_VIDEO) /\ TheRecord[TAG_DATE_VIDEO] = GoodStamp
    /\ HasGps /\ TheRecord[TAG_GPS_LATITUDE] = 35 /\ TheRecord[TAG_GPS_LONGITUDE] = 139
    /\ HasTag(TAG_DATE_FILE)
    /\ TheRecord[TAG_DATE_FILE] = <<"2", "0", "2", "1", ":", "0", "6", ":", "0", "1", " ", "2", "x", ":", "0", "0", ":", "0", "0", "+", "0", "9", ":", "0", "0">>
    /\ Len(results) >= 1
    /\ results[1].date = Some(Datetime(2021, 6, 1, 21, 0, 0))
    /\ results[1].info = <<TAG_DATE_VIDEO, "in UTC", <<"+", " ", "0", "9", ":", "0", "0">>, "via GPS">>

\* C12: a video with no offset from GPS whose File:FileModifyDate parses to F with
\* a written offset o resolves to B + o via File exactly when |(F - o) - B| <= 3
\* seconds; otherwise the file date is not used.
C12_FileCorroboration ==
    (/\ media_type = "video" /\ BaseParses /\ NoGpsOffset
     /\ HasTag(TAG_DATE_FILE) /\ FileHasSignedOffset
     /\ FileParsed.exc = NoExc /\ FileParsed.date # None /\ FileParsed.offset # None) =>
        \A i \in 1..Len(results) :
            IF FileCorroborates
            THEN results[i] = Resolved(DatePlus(BaseInstant, FileParsed.offset[1]),
                                       <<TAG_DATE_VIDEO, "in UTC",
                                         OffsetText(FileParsed.offset[1]), "via File">>)
            ELSE results[i] = AssumedLocal(BaseInstant)

\* C12 witness: the resolver failed on the position, the file date is 3 seconds
\* past the base instant under +09:00, and the video has resolved to 21:00:00 via
\* File.
C12_Witness ==
    /\ media_type = "video"
    /\ HasTag(TAG_DATE_VIDEO) /\ TheRecord[TAG_DATE_VIDEO] = GoodStamp
    /\ HasGps /\ TheRecord[TAG_GPS_LATITUDE] = 95
    /\ HasTag(TAG_DATE_FILE)
    /\ TheRecord[TAG_DATE_FILE] = <<"2", "0", "2", "1", ":", "0", "6", ":", "0", "1", " ", "2", "1", ":", "0", "0", ":", "0", "3", "+", "0", "9", ":", "0", "0">>
    /\ Len(results) >= 1
    /\ results[1].date = Some(Datetime(2021, 6, 1, 21, 0, 0))
    /\ results[1].info = <<TAG_DATE_VIDEO, "in UTC", <<"+", " ", "0", "9", ":", "0", "0">>, "via File">>

\* C13: a video with no offset from GPS whose File:FileModifyDate is absent,
\* unparseable, without a written offset or not within 3 seconds of the base
\* instant resolves to the raw CreateDate, assumed in local time.
C13_FinalFallback ==
    (/\ media_type = "video" /\ BaseParses /\ NoGpsOffset
     /\ \/ ~HasTag(TAG_DATE_FILE)
        \/ FileParsed.exc # NoExc
        \/ FileParsed.date = None
        \/ FileHasNoMarker
        \/ (FileHasSignedOffset /\ ~FileCorroborates)) =>
        \A i \in 1..Len(results) : results[i] = AssumedLocal(BaseInstant)

\* C14: a photo resolves to exactly the naive date/time parsed from
\* EXIF:DateTimeOriginal, whatever offset the text carries and whatever other tags
\* the record has; with the tag absent or unparseable no date is produced.
C14_PhotoDateAsWritten ==
    media_type = "photo" =>
        \A i \in 1..Len(results) :
            /\ results[i].exc = NoExc
            /\ IF /\ HasTag(TAG_DATE_PHOTO)
                  /\ parse_date(TheRecord[TAG_DATE_PHOTO]).exc = NoExc
                  /\ parse_date(TheRecord[TAG_DATE_PHOTO]).date # None
               THEN results[i] = Resolved(parse_date(TheRecord[TAG_DATE_PHOTO]).date[1],
                                          <<TAG_DATE_PHOTO, "defined in local time">>)
               ELSE results[i] = Unresolved

\* C24: a create date without a time token parses to 12:00:00 of its day, and the
\* video resolved from it, with the offset GPS or the file's date adds, lies on the
\* same calendar day whenever that offset is less than 12 hours either way.
C24_NoonDefault ==
    (/\ media_type = "video" /\ HasTag(TAG_DATE_VIDEO)
     /\ Len(SplitWs(TheRecord[TAG_DATE_VIDEO])) = 1
     /\ BaseParses) =>
        \A token \in {SplitOn(SplitWs(TheRecord[TAG_DATE_VIDEO])[1], ":")} :
        \A added \in {IF HasGps /\ GpsOffset # None THEN GpsOffset[1]
                      ELSE IF /\ HasTag(TAG_DATE_FILE)
                              /\ FileParsed.exc = NoExc /\ FileParsed.date # None
                              /\ FileParsed.offset # None /\ FileCorroborates
                      THEN FileParsed.offset[1]
                      ELSE 0} :
            /\ BaseInstant = Datetime(IntOf(token[1]), IntOf(token[2]), IntOf(token[3]), 12, 0, 0)
            /\ \A i \in 1..Len(results) :
                  results[i].exc = NoExc =>
                      /\ results[i].date = Some(DatePlus(BaseInstant, added))
                      /\ (added < 12 * 3600 /\ added > 0 - 12 * 3600) =>
                            /\ results[i].date[1].year = IntOf(token[1])
                            /\ results[i].date[1].month = IntOf(token[2])
                            /\ results[i].date[1].day = IntOf(token[3])

\* C24 witness: 2021:12:31 without a time, beside a file date of 23:59:00 under
\* +11:59, has resolved via File to 23:59:00 of the same day.
C24_Witness ==
    /\ media_type = "video"
    /\ HasTag(TAG_DATE_VIDEO)
    /\ TheRecord[TAG_DATE_VIDEO] = <<"2", "0", "2", "1", ":", "1", "2", ":", "3", "1">>
    /\ ~HasGps
    /\ HasTag(TAG_DATE_FILE)
    /\ TheRecord[TAG_DATE_FILE] = <<"2", "0", "2", "1", ":", "1", "2", ":", "3", "1", " ", "2", "3", ":", "5", "9", ":", "0", "0", "+", "1", "1", ":", "5", "9">>
    /\ Len(results) >= 1
    /\ results[1].date = Some(Datetime(2021, 12, 31, 23, 59, 0))
    /\ results[1].info = <<TAG_DATE_VIDEO, "in UTC", <<"+", " ", "1", "1", ":", "5", "9">>, "via File">>


(***************************************************************************)
(* The older sortphotos.py: parse_date_exif and get_oldest_timestamp       *)
(***************************************************************************)

\* sortphotos.py lines 92-105: the adjustment for the time zone the time token
\* writes; time_zone is time_entries[2].split(':').  "exc" tells that an int()
\* raised, dateadd is in seconds and 0 when no adjustment is made.
LegacyDateadd(time_entries, time_zone, use_local) ==
    IF use_local \/ Len(time_entries) <= 2 \/ Len(time_zone) # 2
    THEN [exc |-> NoExc, dateadd |-> 0]
    ELSE IF ~IntValid(time_zone[1]) \/ ~IntValid(time_zone[2])
    THEN [exc |-> "ValueError", dateadd |-> 0]
    ELSE [exc |-> NoExc,
          dateadd |-> Timedelta(IF time_entries[2] = <<"+">>
                                THEN IntOf(time_zone[1]) * (0 - 1)
                                ELSE IntOf(time_zone[1]),
                                IntOf(time_zone[2]))]

\* Lines 81-89: the hour, minute and second of the time token's first piece.
LegacyTime(time) ==
    ParseTimeFields(<<>>, time,
                    IF Len(time) = 3 THEN SplitOn(time[3], ".")[1] ELSE <<>>, <<>>)

\* Lines 107-124: the date object, checked by strftime under Python 2, then shifted.
LegacyBuild(year, month, day, tok) ==
    IF tok.tm.exc # NoExc \/ tok.add.exc # NoExc
    THEN [exc |-> "ValueError", date |-> None]
    ELSE IF ~DatetimeValid(year, month, day, tok.tm.hour, tok.tm.minute, tok.tm.second)
    THEN [exc |-> NoExc, date |-> None]
    ELSE IF StrftimeRaises("py2", Datetime(year, month, day, tok.tm.hour,
                                           tok.tm.minute, tok.tm.second))
    THEN [exc |-> NoExc, date |-> None]
    ELSE [exc |-> NoExc,
          date |-> Some(DatePlus(Datetime(year, month, day, tok.tm.hour,
                                          tok.tm.minute, tok.tm.second),
                                 tok.add.dateadd))]

\* Lines 62-89: the date token's fields, then the time token when there is one.
LegacyFields(elements, date_entries, use_local) ==
    IF ~(/\ Len(date_entries) = 3
         /\ StrGT(date_entries[1], <<"0", "0", "0", "0">>)
         /\ ~Contains(Join(date_entries), "."))
    THEN [exc |-> NoExc, date |-> None]
    ELSE IF \E i \in 1..3 : ~IntValid(date_entries[i])
    THEN [exc |-> "ValueError", date |-> None]
    ELSE LegacyBuild(IntOf(date_entries[1]), IntOf(date_entries[2]),
                     IntOf(date_entries[3]),
                     IF Len(elements) > 1
                     THEN [tm |-> LegacyTime(SplitOn(ReSplitMarker(elements[2])[1], ":")),
                           add |-> LegacyDateadd(ReSplitMarker(elements[2]),
                                       IF Len(ReSplitMarker(elements[2])) > 2
                                       THEN SplitOn(ReSplitMarker(elements[2])[3], ":")
                                       ELSE <<>>,
                                       use_local)]
                     ELSE [tm |-> DefaultTime, add |-> [exc |-> NoExc, dateadd |-> 0]])

\* sortphotos.py lines 45-124.  The result is [exc, date]: the exception that left
\* the call, and the date or None.
parse_date_exif(date_string, use_local) ==
    IF SplitWs(date_string) = <<>> THEN [exc |-> NoExc, date |-> None]
    ELSE LegacyFields(SplitWs(date_string), SplitOn(SplitWs(date_string)[1], ":"),
                      use_local)

\* Line 134: datetime.now(), the moment of the call.
Now == Datetime(2022, 1, 1, 0, 0, 0)

\* A step that appends the key where the code starts a new list.
OldestStep_KeepsKeys(acc, key, exifdate) ==
    IF exifdate.exc # NoExc \/ exifdate.date = None THEN acc
    ELSE IF SecondsBetween(exifdate.date[1], acc.oldest_date) < 0
    THEN [date_available |-> TRUE, oldest_date |-> exifdate.date[1],
          oldest_keys |-> Append(acc.oldest_keys, key)]
    ELSE IF exifdate.date[1] = acc.oldest_date
    THEN [acc EXCEPT !.oldest_keys = Append(@, key)]
    ELSE acc

\* Lines 162-174: one tag's date against the oldest so far; a raise of the parser
\* counts as no date.
OldestStep(acc, key, exifdate) ==
    IF exifdate.exc # NoExc \/ exifdate.date = None THEN acc
    ELSE IF SecondsBetween(exifdate.date[1], acc.oldest_date) < 0
    THEN [date_available |-> TRUE, oldest_date |-> exifdate.date[1],
          oldest_keys |-> <<key>>]
    ELSE IF exifdate.date[1] = acc.oldest_date
    THEN [acc EXCEPT !.oldest_keys = Append(@, key)]
    ELSE acc

\* Lines 148-174: the loop over the keys, in the order the record yields them.  A tag
\* is [key, list, items]: its name, whether its value is a list, and the value(s).
RECURSIVE OldestFrom(_, _, _, _, _)
OldestFrom(data, acc, ignore_groups, ignore_tags, use_local) ==
    IF data = <<>> THEN acc
    ELSE IF /\ data[1].key \notin ignore_tags
            /\ SplitOn(data[1].key, ":")[1] \notin ignore_groups
            /\ ~ContainsSub(data[1].key, <<"G", "P", "S">>)
    THEN OldestFrom(Tail(data),
                    OldestStep(acc, data[1].key,
                               parse_date_exif(data[1].items[1], use_local)),
                    ignore_groups, ignore_tags, use_local)
    ELSE OldestFrom(Tail(data), acc, ignore_groups, ignore_tags, use_local)

\* Lines 176-182: what the call returns for the loop's last state.
OldestReturned(data, acc) ==
    [src_file |-> (CHOOSE t \in {data[j] : j \in 1..Len(data)} :
                       t.key = <<"S", "o", "u", "r", "c", "e", "F", "i", "l", "e">>).items[1],
     date |-> IF acc.date_available THEN Some(acc.oldest_date) ELSE None,
     keys |-> acc.oldest_keys]

\* sortphotos.py lines 127-182
get_oldest_timestamp(data, additional_groups_to_ignore, additional_tags_to_ignore, use_local) ==
    OldestReturned(data,
        OldestFrom(data,
                   [date_available |-> FALSE, oldest_date |-> Now, oldest_keys |-> <<>>],
                   {<<"I", "C", "C", "_", "P", "r", "o", "f", "i", "l", "e">>} \cup additional_groups_to_ignore,
                   {<<"S", "o", "u", "r", "c", "e", "F", "i", "l", "e">>, <<"X", "M", "P", ":", "H", "i", "s", "t", "o", "r", "y", "W", "h", "e", "n">>} \cup additional_tags_to_ignore,
                   use_local))

(***************************************************************************)
(* Harness of the older code: one text, or one record, call after call     *)
(***************************************************************************)

\* The records: SourceFile, then up to three of these tags in any order.  A list is
\* read by its first element; ICC_Profile, File, XMP:HistoryWhen and a GPS tag carry
\* the oldest dates; one date lies after the moment of the call and one at it.
LegacyRecords ==
    {<<[key |-> <<"S", "o", "u", "r", "c", "e", "F", "i", "l", "e">>, list |-> FALSE, items |-> <<<<"s", "/", "a", ".", "j", "p", "g">>>>]>> \o tags :
        tags \in {s \in UNION {[1..n ->
    {[key |-> <<"E", "X", "I", "F", ":", "C", "r", "e", "a", "t", "e", "D", "a", "t", "e">>,
          list |-> FALSE,
          items |-> <<<<"2", "0", "2", "1", ":", "0", "6", ":", "0", "1", " ", "1", "2", ":", "0", "0", ":", "0", "0">>>>],
         [key |-> <<"E", "X", "I", "F", ":", "M", "o", "d", "i", "f", "y", "D", "a", "t", "e">>,
          list |-> FALSE,
          items |-> <<<<"2", "0", "2", "0", ":", "0", "1", ":", "1", "5", " ", "1", "0", ":", "3", "0", ":", "4", "5">>>>],
         [key |-> <<"X", "M", "P", ":", "C", "r", "e", "a", "t", "e", "D", "a", "t", "e">>,
          list |-> TRUE,
          items |-> <<<<"2", "0", "2", "0", ":", "0", "1", ":", "1", "5", " ", "1", "0", ":", "3", "0", ":", "4", "5">>,
                      <<"2", "0", "1", "9", ":", "0", "1", ":", "0", "1", " ", "0", "0", ":", "0", "0", ":", "0", "0">>>>],
         [key |-> <<"F", "i", "l", "e", ":", "F", "i", "l", "e", "M", "o", "d", "i", "f", "y", "D", "a", "t", "e">>,
          list |-> FALSE,
          items |-> <<<<"2", "0", "0", "0", ":", "0", "1", ":", "0", "1", " ", "0", "0", ":", "0", "0", ":", "0", "0">>>>],
         [key |-> <<"E", "X", "I", "F", ":", "G", "P", "S", "D", "a", "t", "e", "S", "t", "a", "m", "p">>,
          list |-> FALSE,
          items |-> <<<<"1", "9", "9", "9", ":", "0", "1", ":", "0", "1">>>>],
         [key |-> <<"Q", "u", "i", "c", "k", "T", "i", "m", "e", ":", "C", "r", "e", "a", "t", "e", "D", "a", "t", "e">>,
          list |-> FALSE,
          items |-> <<<<"2", "0", "2", "1", ":", "0", "6", ":", "0", "1", " ", "1", "x", ":", "0", "0", ":", "0", "0">>>>],
         [key |-> <<"X", "M", "P", ":", "H", "i", "s", "t", "o", "r", "y", "W", "h", "e", "n">>,
          list |-> FALSE,
          items |-> <<<<"1", "9", "9", "8", ":", "0", "1", ":", "0", "1">>>>],
         [key |-> <<"E", "X", "I", "F", ":", "D", "a", "t", "e", "T", "i", "m", "e", "O", "r", "i", "g", "i", "n", "a", "l">>,
          list |-> FALSE,
          items |-> <<<<"2", "0", "3", "0", ":", "0", "1", ":", "0", "1", " ", "0", "0", ":", "0", "0", ":", "0", "0">>>>],
         [key |-> <<"I", "P", "T", "C", ":", "D", "a", "t", "e", "C", "r", "e", "a", "t", "e", "d">>,
          list |-> FALSE,
          items |-> <<<<"2", "0", "2", "2", ":", "0", "1", ":", "0", "1", " ", "0", "0", ":", "0", "0", ":", "0", "0">>>>],
         [key |-> <<"I", "C", "C", "_", "P", "r", "o", "f", "i", "l", "e", ":", "P", "r", "o", "f", "i", "l", "e", "D", "a", "t", "e", "T", "i", "m", "e">>,
          list |-> FALSE,
          items |-> <<<<"1", "9", "9", "7", ":", "0", "1", ":", "0", "1", " ", "0", "0", ":", "0", "0", ":", "0", "0">>>>],
         [key |-> <<"X", "M", "P", ":", "M", "o", "d", "i", "f", "y", "D", "a", "t", "e">>,
          list |-> FALSE,
          items |-> <<<<"2", "0", "2", "0", ":", "0", "1", ":", "1", "5", " ", "1", "2", ":", "3", "0", ":", "4", "5", "+", "0", "2", ":", "0", "0">>>>],
         [key |-> <<"E", "X", "I", "F", ":", "M", "o", "d", "e", "l">>,
          list |-> FALSE,
          items |-> <<<<"C", "a", "n", "o", "n", " ", "E", "O", "S">>>>]}] : n \in 0..3} :
                     \A i, j \in 1..Len(s) : i # j => s[i] # s[j]}}

InitLegacy ==
    /\ results = <<>>
    /\ use_local_time \in BOOLEAN
    /\ \/ text \in ParseTexts /\ metadata = <<>>
       \/ text = <<>> /\ \E data \in LegacyRecords : metadata = <<data>>
    /\ media_type = "photo"
    /\ copy = FALSE
    /\ keep = FALSE
    /\ test = FALSE
    /\ filename_format = None
    /\ idx = 0
    /\ fs = <<>>
    /\ dirs = {}
    /\ test_file_dict = <<>>
    /\ num_ignored = 0
    /\ num_duplicates = 0
    /\ num_processed = 0
    /\ processed = <<>>
    /\ pc = "done"
    /\ src_dir = <<>>
    /\ fs0 = <<>>
    /\ trace = <<>>

CallParseDateExif ==
    /\ metadata = <<>>
    /\ Len(results) < MaxCalls
    /\ results' = Append(results, parse_date_exif(text, use_local_time))
    /\ UNCHANGED <<text, use_local_time, batchVars>>

\* sortPhotos calls it with the groups its caller ignores: ['File'] by default.
CallGetOldest ==
    /\ metadata # <<>>
    /\ Len(results) < MaxCalls
    /\ results' = Append(results,
                         get_oldest_timestamp(metadata[1], {<<"F", "i", "l", "e">>},
                                              {}, use_local_time))
    /\ UNCHANGED <<text, use_local_time, batchVars>>

NextLegacy == CallParseDateExif \/ CallGetOldest

SpecLegacy == InitLegacy /\ [][NextLegacy]_vars

(***************************************************************************)
(* Properties of the older code                                            *)
(***************************************************************************)

\* C26: with use_local_time false, a timestamp T+HH:MM or T-HH:MM parses to T minus
\* the signed offset, whatever HH and MM are; with use_local_time true it parses
\* to T.  T and the signed offset are the text's fields as written.
C26_LegacyOffsetToUtc ==
    (/\ metadata = <<>>
     /\ Len(SplitWs(text)) = 2
     /\ Len(ReSplitMarker(SplitWs(text)[2])) = 3
     /\ ReSplitMarker(SplitWs(text)[2])[2] \in {<<"+">>, <<"-">>}) =>
        \A dt \in {SplitOn(SplitWs(text)[1], ":")} :
        \A tm \in {SplitOn(ReSplitMarker(SplitWs(text)[2])[1], ":")} :
        \A tz \in {SplitOn(ReSplitMarker(SplitWs(text)[2])[3], ":")} :
            (/\ Len(dt) = 3 /\ \A k \in 1..3 : IntValid(dt[k])
             /\ Len(tm) = 3 /\ \A k \in 1..2 : IntValid(tm[k])
             /\ IntValid(SplitOn(tm[3], ".")[1])
             /\ Len(tz) = 2 /\ \A k \in 1..2 : IntValid(tz[k]) /\ Len(tz[k]) = 2
             /\ IntOf(dt[1]) >= 1900
             /\ DatetimeValid(IntOf(dt[1]), IntOf(dt[2]), IntOf(dt[3]), IntOf(tm[1]),
                              IntOf(tm[2]), IntOf(SplitOn(tm[3], ".")[1]))) =>
                \A T \in {Datetime(IntOf(dt[1]), IntOf(dt[2]), IntOf(dt[3]), IntOf(tm[1]),
                                   IntOf(tm[2]), IntOf(SplitOn(tm[3], ".")[1]))} :
                \A magnitude \in {IntOf(tz[1]) * 3600 + IntOf(tz[2]) * 60} :
                \A i \in 1..Len(results) :
                    /\ results[i].exc = NoExc
                    /\ results[i].date =
                          Some(IF use_local_time THEN T
                               ELSE IF ReSplitMarker(SplitWs(text)[2])[2] = <<"+">>
                               THEN DatePlus(T, 0 - magnitude)
                               ELSE DatePlus(T, magnitude))

\* C27: get_oldest_timestamp returns the earliest of the dates that the tags in use
\* (not SourceFile or XMP:HistoryWhen, not of a group ICC_Profile or File, no GPS in
\* the name) parse to, a list read by its first element and a raise of the parser
\* read as no date, together with exactly the tags carrying that date, each once;
\* it returns no date when no tag in use parses to a date before the current time.
\* The records hold the tags in every order.
C27_OldestOfUsedTags ==
    metadata # <<>> =>
        \A data \in {metadata[1]} :
        \A parsed \in {[j \in 1..Len(data) |->
                          IF \/ data[j].key \in {<<"S", "o", "u", "r", "c", "e", "F", "i", "l", "e">>, <<"X", "M", "P", ":", "H", "i", "s", "t", "o", "r", "y", "W", "h", "e", "n">>}
                             \/ SplitOn(data[j].key, ":")[1] \in {<<"I", "C", "C", "_", "P", "r", "o", "f", "i", "l", "e">>, <<"F", "i", "l", "e">>}
                             \/ ContainsSub(data[j].key, <<"G", "P", "S">>)
                          THEN [exc |-> NoExc, date |-> None]
                          ELSE parse_date_exif(data[j].items[1], use_local_time)]} :
        \A dated \in {{j \in 1..Len(data) :
                          parsed[j].exc = NoExc /\ parsed[j].date # None}} :
        \A i \in 1..Len(results) :
            IF \A j \in dated : SecondsBetween(parsed[j].date[1], Now) >= 0
            THEN results[i].date = None
            ELSE \E m \in dated :
                    /\ \A j \in dated :
                          SecondsBetween(parsed[m].date[1], parsed[j].date[1]) <= 0
                    /\ results[i].date = parsed[m].date
                    /\ {results[i].keys[k] : k \in 1..Len(results[i].keys)}
                          = {data[j].key : j \in {j \in dated :
                                                     parsed[j].date = parsed[m].date}}
                    /\ Len(results[i].keys)
                          = Cardinality({j \in dated : parsed[j].date = parsed[m].date})

\* C27 witness: EXIF:CreateDate of 2021 came first, then XMP:CreateDate, a list whose
\* first element is 2020:01:15 10:30:45, then EXIF:ModifyDate of the same moment;
\* the call returned that moment and the two later tags.
C27_Witness ==
    /\ metadata # <<>>
    /\ Len(metadata[1]) = 4
    /\ metadata[1][2].key = <<"E", "X", "I", "F", ":", "C", "r", "e", "a", "t", "e", "D", "a", "t", "e">>
    /\ metadata[1][3].list
    /\ Len(results) >= 1
    /\ results[1].date = Some(Datetime(2020, 1, 15, 10, 30, 45))
    /\ results[1].keys = <<<<"X", "M", "P", ":", "C", "r", "e", "a", "t", "e", "D", "a", "t", "e">>, <<"E", "X", "I", "F", ":", "M", "o", "d", "i", "f", "y", "D", "a", "t", "e">>>>

=============================================================================
